---------------------------- MODULE Spec2Model ----------------------------
(***************************************************************************)
(* A model of Codle: the signature parser, the type translator and value   *)
(* renderer, the test-output normalizer, and the test / submit commands    *)
(* that consume the normalizer's summary.                                  *)
(*                                                                         *)
(* Text is modelled as TLA+ strings; the Rust string methods the code      *)
(* calls (trim, find, split, parse, ...) are operators that compute what   *)
(* the methods compute, character by character.                            *)
(***************************************************************************)
EXTENDS Integers, Sequences, FiniteSets, TLC

VARIABLES
    target,        \* run_tests: the language whose test command is run
    tool_launched, \* run_tests: whether Command::output() could launch the tool
    tool_status,   \* run_tests: the exit status of the tool
    tool_stdout,   \* run_tests: the tool's standard output, as lines
    tool_stderr,   \* run_tests: the tool's standard error, as lines
    returned,      \* run_tests: whether it has returned
    run_result     \* run_tests: the Result<TestSummary, String> it returned

VARIABLES
    spawned,       \* run_tests: the (program, args) pairs it has started, in order
    tool_state     \* the child process: "none", "running" or "exited"

procVars == <<spawned, tool_state>>

normVars == <<target, tool_launched, tool_status, tool_stdout, tool_stderr,
              returned, run_result, procVars>>

VARIABLES
    sig_case,      \* how the text was made: valid, or what is wrong with it
    sig_source,    \* the signature a notation text was written from, if any
    sig_text,      \* parse_signature: the text to parse
    sig_parsed,    \* parse_signature: whether it has returned
    sig_result     \* parse_signature: the Result<FunctionSignature, String>

sigVars == <<sig_case, sig_source, sig_text, sig_parsed, sig_result>>

VARIABLES
    arg_ty,        \* translate_type and render_value: the RustType
    arg_value,     \* render_value: the serde_json::Value
    arg_lang,      \* translate_type and render_value: the Language
    applied,       \* whether the two functions have returned
    translated,    \* the String translate_type returned
    rendered       \* the String render_value returned

VARIABLES
    gen_sig,       \* generate_*_tests: the FunctionSignature
    gen_tests,     \* generate_*_tests: the challenge's test cases
    gen_lang,      \* the Language whose generator runs
    generated,     \* whether the generator has returned
    tests_code     \* the lines of the test file it returned

genVars == <<gen_sig, gen_tests, gen_lang, generated, tests_code>>

typeVars == <<arg_ty, arg_value, arg_lang, applied, translated, rendered, genVars>>

VARIABLES
    user_config,   \* the UserConfig saved in ~/.config/codle/config.json
    output_dir,    \* the challenge's directory: absent, or the files in it
    today,         \* the local date, as a day number
    command,       \* the last codle command run
    exit_code,     \* the exit code of that command
    init_runs,     \* the runs of codle init under way at once, each at its place
    init_error     \* the error the last command reported, when it was codle init

VARIABLES
    score_args,    \* calculate_boss_score: challenge_difficulty, tier and streak
    scored,        \* calculate_boss_score: whether it has returned
    score          \* calculate_boss_score: the u32 it returned

scoreVars == <<score_args, scored, score>>

cliVars == <<user_config, output_dir, today, command, exit_code, init_runs, init_error,
             scoreVars>>

vars == <<normVars, sigVars, typeVars, cliVars>>

-----------------------------------------------------------------------------
(* Bounds of the model *)

MaxCount == 2
MaxLines == 2
MaxDepth == 2
MaxItems == 2
MaxDay == 1
ChallengeDifficulty == 2

\* the most test cases a challenge brings
MaxTests == 1

\* the most test blocks of a generated C or C++ harness that print a verdict
MaxVerdicts == 3

\* the last day of a run of days on which the user submits
MaxDate == 3

\* the greatest challenge difficulty and the longest streak that are scored
MaxDifficulty == 3
MaxStreak == 7

-----------------------------------------------------------------------------
(* Rust's str methods *)

Min(S) == CHOOSE x \in S : \A y \in S : x <= y

Max(S) == CHOOSE x \in S : \A y \in S : x >= y

char_at(s, i) == SubSeq(s, i, i)

is_whitespace(c) == c \in {" ", "\t"}

starts_with(s, p) == Len(p) <= Len(s) /\ SubSeq(s, 1, Len(p)) = p

ends_with(s, p) == Len(p) <= Len(s) /\ SubSeq(s, Len(s) - Len(p) + 1, Len(s)) = p

\* str::find: the 1-based position of the first occurrence of p, 0 for None
find(s, p) ==
    LET at == {i \in 1..(Len(s) - Len(p) + 1) : SubSeq(s, i, i + Len(p) - 1) = p}
    IN  IF at = {} THEN 0 ELSE Min(at)

contains(s, p) == find(s, p) # 0

trim(s) ==
    LET solid == {i \in 1..Len(s) : ~is_whitespace(char_at(s, i))}
    IN  IF solid = {} THEN "" ELSE SubSeq(s, Min(solid), Max(solid))

trim_end_matches(s, c) ==
    LET keep == {i \in 1..Len(s) : char_at(s, i) # c}
    IN  IF keep = {} THEN "" ELSE SubSeq(s, 1, Max(keep))

\* str::split on a one-character separator: the pieces, empty ones included
RECURSIVE split(_, _)
split(s, sep) ==
    LET i == find(s, sep)
    IN  IF i = 0 THEN <<s>>
        ELSE <<SubSeq(s, 1, i - 1)>> \o split(SubSeq(s, i + 1, Len(s)), sep)

\* str::split_whitespace: the maximal runs of non-whitespace characters
RECURSIVE split_whitespace(_)
split_whitespace(s) ==
    LET solid == {i \in 1..Len(s) : ~is_whitespace(char_at(s, i))}
    IN  IF solid = {} THEN <<>>
        ELSE LET b == Min(solid)
                 gaps == {i \in b..Len(s) : is_whitespace(char_at(s, i))}
                 e == IF gaps = {} THEN Len(s) ELSE Min(gaps) - 1
             IN  <<SubSeq(s, b, e)>> \o split_whitespace(SubSeq(s, e + 1, Len(s)))

digit_value(c) ==
    CASE c = "0" -> 0 [] c = "1" -> 1 [] c = "2" -> 2 [] c = "3" -> 3
      [] c = "4" -> 4 [] c = "5" -> 5 [] c = "6" -> 6 [] c = "7" -> 7
      [] c = "8" -> 8 [] c = "9" -> 9 [] OTHER -> -1

RECURSIVE digits_value(_)
digits_value(s) ==
    IF s = "" THEN 0
    ELSE 10 * digits_value(SubSeq(s, 1, Len(s) - 1)) + digit_value(char_at(s, Len(s)))

\* str::parse::<usize>: an optional '+' and then one or more decimal digits
parse_usize(s) ==
    LET body == IF starts_with(s, "+") THEN SubSeq(s, 2, Len(s)) ELSE s
        good == body # "" /\ \A i \in 1..Len(body) : digit_value(char_at(body, i)) >= 0
    IN  [ok |-> good, n |-> IF good THEN digits_value(body) ELSE 0]

\* usize::saturating_sub
saturating_sub(a, b) == IF a >= b THEN a - b ELSE 0

\* Iterator::find over a sequence: the first element satisfying P, "" for None
first_parsable(tokens) ==
    LET at == {i \in 1..Len(tokens) : parse_usize(tokens[i]).ok}
    IN  IF at = {} THEN [some |-> FALSE, n |-> 0]
        ELSE [some |-> TRUE, n |-> parse_usize(tokens[Min(at)]).n]

-----------------------------------------------------------------------------
(* Targets and their test commands *)

Language == {"Rs", "Py", "Kt", "Java", "C", "Cpp"}

\* test_command with the gradle on the PATH in place of the project's wrapper
test_command_gradle(lang) ==
    CASE lang = "Rs"   -> [cmd |-> "cargo",  args |-> <<"test">>]
      [] lang = "Py"   -> [cmd |-> "pytest", args |-> <<"test_solution.py", "-v">>]
      [] lang = "Kt"   -> [cmd |-> "gradle", args |-> <<"test">>]
      [] lang = "Java" -> [cmd |-> "gradle", args |-> <<"test">>]
      [] lang = "C"    -> [cmd |-> "make",   args |-> <<"test">>]
      [] lang = "Cpp"  -> [cmd |-> "make",   args |-> <<"test">>]

test_command(lang) ==
    CASE lang = "Rs"   -> [cmd |-> "cargo",     args |-> <<"test">>]
      [] lang = "Py"   -> [cmd |-> "pytest",    args |-> <<"test_solution.py", "-v">>]
      [] lang = "Kt"   -> [cmd |-> "./gradlew", args |-> <<"test">>]
      [] lang = "Java" -> [cmd |-> "./gradlew", args |-> <<"test">>]
      [] lang = "C"    -> [cmd |-> "make",      args |-> <<"test">>]
      [] lang = "Cpp"  -> [cmd |-> "make",      args |-> <<"test">>]

-----------------------------------------------------------------------------
(* The test-output normalizer *)

\* Result<TestSummary, String>
Ok(passed, failed, total, output) ==
    [ok |-> TRUE, passed |-> passed, failed |-> failed, total |-> total,
     output |-> output, err |-> ""]

Err(message) ==
    [ok |-> FALSE, passed |-> 0, failed |-> 0, total |-> 0, output |-> <<>>,
     err |-> message]

\* for (i, part) in parts.iter().enumerate(): if *part == word && i > 0 and
\* parts[i - 1] parses, the count is assigned; the last assignment stays
count_before(parts, word, current) ==
    LET at == {i \in 2..Len(parts) : parts[i] = word /\ parse_usize(parts[i - 1]).ok}
    IN  IF at = {} THEN current ELSE parse_usize(parts[Max(at) - 1]).n

\* the same with parts[i - 1].trim_end_matches(',')
count_before_comma(parts, word, current) ==
    LET at == {i \in 2..Len(parts) :
                 parts[i] = word /\ parse_usize(trim_end_matches(parts[i - 1], ",")).ok}
    IN  IF at = {} THEN current
        ELSE parse_usize(trim_end_matches(parts[Max(at) - 1], ",")).n

parse_rust_output(_stdout, _stderr, combined) ==
    LET at == {i \in 1..Len(combined) : starts_with(combined[i], "test result:")}
        line == combined[Min(at)]
        parts == split(line, ";")
        first == first_parsable(split_whitespace(parts[1]))
        passed0 == IF at # {} /\ first.some THEN first.n ELSE 0
        hits == IF at = {} THEN {}
                ELSE {i \in 1..Len(parts) :
                        /\ contains(parts[i], "failed")
                        /\ first_parsable(split_whitespace(parts[i])).some}
        failed0 == IF hits = {} THEN 0
                   ELSE first_parsable(split_whitespace(parts[Max(hits)])).n
        fallback == passed0 = 0 /\ failed0 = 0
        oks == {i \in 1..Len(combined) : contains(combined[i], " ... ok")}
        fails == {i \in 1..Len(combined) :
                    ~contains(combined[i], " ... ok") /\ contains(combined[i], " ... FAILED")}
        passed == IF fallback THEN passed0 + Cardinality(oks) ELSE passed0
        failed == IF fallback THEN failed0 + Cardinality(fails) ELSE failed0
    IN  Ok(passed, failed, passed + failed, combined)

\* the first loop of parse_pytest_output, over every line and without a break
RECURSIVE pytest_scan(_, _, _)
pytest_scan(lines, passed, failed) ==
    IF lines = <<>> THEN [passed |-> passed, failed |-> failed]
    ELSE LET line == Head(lines)
             parts == split_whitespace(line)
         IN  IF contains(line, "passed") \/ contains(line, "failed")
             THEN pytest_scan(Tail(lines), count_before(parts, "passed", passed),
                              count_before(parts, "failed", failed))
             ELSE pytest_scan(Tail(lines), passed, failed)

parse_pytest_output(_stdout, _stderr, combined) ==
    LET scan == pytest_scan(combined, 0, 0)
        fallback == scan.passed = 0 /\ scan.failed = 0
        oks == {i \in 1..Len(combined) : contains(combined[i], "PASSED")}
        fails == {i \in 1..Len(combined) :
                    ~contains(combined[i], "PASSED") /\ contains(combined[i], "FAILED")}
        passed == IF fallback THEN scan.passed + Cardinality(oks) ELSE scan.passed
        failed == IF fallback THEN scan.failed + Cardinality(fails) ELSE scan.failed
    IN  Ok(passed, failed, passed + failed, combined)

parse_gradle_output(_stdout, _stderr, combined) ==
    LET at == {i \in 1..Len(combined) : contains(combined[i], "tests completed")}
        parts == split_whitespace(combined[Min(at)])
        total0 == IF at = {} THEN 0 ELSE count_before(parts, "tests", 0)
        failed0 == IF at = {} THEN 0 ELSE count_before_comma(parts, "failed", 0)
        passed0 == IF at = {} THEN 0 ELSE saturating_sub(total0, failed0)
        fallback == total0 = 0
        oks == {i \in 1..Len(combined) :
                  contains(trim(combined[i]), "()") /\ ends_with(trim(combined[i]), "PASSED")}
        fails == {i \in 1..Len(combined) :
                    /\ contains(trim(combined[i]), "()")
                    /\ ~ends_with(trim(combined[i]), "PASSED")
                    /\ ends_with(trim(combined[i]), "FAILED")}
        passed == IF fallback THEN passed0 + Cardinality(oks) ELSE passed0
        failed == IF fallback THEN failed0 + Cardinality(fails) ELSE failed0
        total == IF fallback THEN passed + failed ELSE total0
    IN  Ok(passed, failed, total, combined)

\* parse_c_output that takes the total after the slash for the failures
parse_c_output_total_as_failed(_stdout, _stderr, combined) ==
    LET at == {i \in 1..Len(combined) : contains(combined[i], "tests passed")}
        parts == split(combined[Min(at)], "/")
        two == at # {} /\ Len(parts) >= 2
        p == parse_usize(trim(parts[1]))
        passed0 == IF two /\ p.ok THEN p.n ELSE 0
        tokens == split_whitespace(parts[2])
        t == parse_usize(IF tokens = <<>> THEN "0" ELSE tokens[1])
        failed0 == IF two /\ t.ok THEN t.n ELSE 0
    IN  Ok(passed0, failed0, passed0 + failed0, combined)

parse_c_output(_stdout, _stderr, combined) ==
    LET at == {i \in 1..Len(combined) : contains(combined[i], "tests passed")}
        parts == split(combined[Min(at)], "/")
        two == at # {} /\ Len(parts) >= 2
        p == parse_usize(trim(parts[1]))
        passed0 == IF two /\ p.ok THEN p.n ELSE 0
        tokens == split_whitespace(parts[2])
        after_slash == IF tokens = <<>> THEN "0" ELSE tokens[1]
        t == parse_usize(after_slash)
        failed0 == IF two /\ t.ok THEN saturating_sub(t.n, passed0) ELSE 0
        fallback == passed0 = 0 /\ failed0 = 0
        oks == {i \in 1..Len(combined) : contains(combined[i], ": PASS")}
        fails == {i \in 1..Len(combined) :
                    ~contains(combined[i], ": PASS") /\ contains(combined[i], ": FAIL")}
        passed == IF fallback THEN passed0 + Cardinality(oks) ELSE passed0
        failed == IF fallback THEN failed0 + Cardinality(fails) ELSE failed0
    IN  Ok(passed, failed, passed + failed, combined)

\* parse_output with the arm of Kotlin and Java taken from Python
parse_output_py_arm(lang, _stdout, _stderr, combined) ==
    CASE lang = "Rs" -> parse_rust_output(_stdout, _stderr, combined)
      [] lang \in {"Py", "Kt", "Java"} -> parse_pytest_output(_stdout, _stderr, combined)
      [] lang \in {"C", "Cpp"} -> parse_c_output(_stdout, _stderr, combined)

parse_output(lang, _stdout, _stderr, combined) ==
    CASE lang = "Rs" -> parse_rust_output(_stdout, _stderr, combined)
      [] lang = "Py" -> parse_pytest_output(_stdout, _stderr, combined)
      [] lang \in {"Kt", "Java"} -> parse_gradle_output(_stdout, _stderr, combined)
      [] lang \in {"C", "Cpp"} -> parse_c_output(_stdout, _stderr, combined)

\* format!("{}\n{}", stdout, stderr).lines(): each line of the tool's output ends
\* with a newline, so an empty line separates the two streams
combined_lines(_stdout, _stderr) == _stdout \o <<"">> \o _stderr

\* run_tests that also fails when the tool exits with a failure status
run_tests_checking_status(lang, is_launched, status, _stdout, _stderr) ==
    IF ~is_launched
    THEN Err("Failed to run " \o test_command(lang).cmd \o ": os error")
    ELSE IF status # 0
    THEN Err(test_command(lang).cmd \o " exited with a failure status")
    ELSE parse_output(lang, _stdout, _stderr, combined_lines(_stdout, _stderr))

\* run_tests with the outcome of Command::output() as parameters: whether the
\* tool was launched, and, when it was, its exit status and its two streams
run_tests(lang, is_launched, status, _stdout, _stderr) ==
    IF ~is_launched
    THEN Err("Failed to run " \o test_command(lang).cmd \o ": os error")
    ELSE parse_output(lang, _stdout, _stderr, combined_lines(_stdout, _stderr))

-----------------------------------------------------------------------------
(* The transcripts the external test tools are taken to print *)

RECURSIVE to_string(_)
to_string(n) ==
    IF n < 10 THEN SubSeq("0123456789", n + 1, n + 1)
    ELSE to_string(n \div 10) \o to_string(n % 10)

Counts == 0..MaxCount

\* the second count of a summary line: none, or as many as can be
EdgeCounts == {0, MaxCount}

\* the summary line of each tool
RustSummary(p, f) ==
    "test result: ok. " \o to_string(p) \o " passed; " \o to_string(f)
        \o " failed; 0 ignored; 0 measured; 0 filtered out"

PytestPassedSummary(p) == "===== " \o to_string(p) \o " passed in 0.01s ====="

PytestSummary(p, f) ==
    "===== " \o to_string(p) \o " passed, " \o to_string(f) \o " failed in 0.01s ====="

GradleSummary(t, f) == to_string(t) \o " tests completed, " \o to_string(f) \o " failed"

CSummary(p, t) == to_string(p) \o "/" \o to_string(t) \o " tests passed"

RustLines ==
    {RustSummary(p, f) : p \in Counts, f \in EdgeCounts}
    \cup {"test tests::test_1 ... ok", "test tests::test_2 ... FAILED",
          "  test result: ok. 1 passed; 0 failed", "running 2 tests"}

PytestLines ==
    {PytestPassedSummary(p) : p \in Counts}
    \cup {PytestSummary(p, f) : p \in Counts, f \in {MaxCount}}
    \cup {"test_solution.py::test_1 PASSED", "test_solution.py::test_2 FAILED",
          "1 failed", "collected 2 items"}

GradleLines ==
    {GradleSummary(t, f) : t \in Counts, f \in EdgeCounts}
    \cup {"AppTest > test1() PASSED", "AppTest > test2() FAILED",
          "BUILD FAILED", "> Task :test"}

CLines ==
    {CSummary(p, t) : p \in Counts, t \in EdgeCounts}
    \cup {"Test 1: PASS", "Test 2: FAIL", "PASS", "make: *** [test] Error 1"}

ToolLines(lang) ==
    CASE lang = "Rs" -> RustLines
      [] lang = "Py" -> PytestLines
      [] lang \in {"Kt", "Java"} -> GradleLines
      [] lang \in {"C", "Cpp"} -> CLines

\* the sequences of at most n elements of S
SeqUpTo(S, n) == UNION {[1..k -> S] : k \in 0..n}

Stdouts(lang) == SeqUpTo(ToolLines(lang), MaxLines)

Stderrs == {<<>>, <<"warning: unused variable">>}

ExitStatuses == {0, 1}

-----------------------------------------------------------------------------
(* The signature parser *)

\* enum RustType
I32 == [tag |-> "I32"]
F64 == [tag |-> "F64"]
Usize == [tag |-> "Usize"]
Bool == [tag |-> "Bool"]
String == [tag |-> "String"]
Char == [tag |-> "Char"]
Vec(inner) == [tag |-> "Vec", inner |-> inner]
MutRef(inner) == [tag |-> "MutRef", inner |-> inner]
Void == [tag |-> "Void"]

Param(name, ty) == [name |-> name, ty |-> ty]

FunctionSignature(name, params, return_type) ==
    [name |-> name, params |-> params, return_type |-> return_type]

\* Result<RustType, String>
OkType(ty) == [ok |-> TRUE, ty |-> ty, err |-> ""]
ErrType(message) == [ok |-> FALSE, ty |-> Void, err |-> message]

\* Result<Vec<Param>, String>
OkParams(params) == [ok |-> TRUE, params |-> params, err |-> ""]
ErrParams(message) == [ok |-> FALSE, params |-> <<>>, err |-> message]

\* Result<FunctionSignature, String>
OkSig(sig) == [ok |-> TRUE, sig |-> sig, err |-> ""]
ErrSig(message) == [ok |-> FALSE, sig |-> FunctionSignature("", <<>>, Void), err |-> message]

\* the text of s from the 1-based position i to its end
from(s, i) == SubSeq(s, i, Len(s))

RECURSIVE parse_type(_)
parse_type(ty_str0) ==
    LET ty_str == trim(ty_str0)
    IN  IF starts_with(ty_str, "&mut ")
        THEN LET inner_type == parse_type(trim(from(ty_str, 6)))
             IN  IF inner_type.ok THEN OkType(MutRef(inner_type.ty)) ELSE inner_type
        ELSE IF starts_with(ty_str, "Vec<")
        THEN LET rest == from(ty_str, 5)
             IN  IF ~ends_with(rest, ">")
                 THEN ErrType("Unclosed Vec<> in type: '" \o ty_str \o "'")
                 ELSE LET inner_type == parse_type(trim(SubSeq(rest, 1, Len(rest) - 1)))
                      IN  IF inner_type.ok THEN OkType(Vec(inner_type.ty)) ELSE inner_type
        ELSE CASE ty_str = "i32" -> OkType(I32)
               [] ty_str = "f64" -> OkType(F64)
               [] ty_str = "usize" -> OkType(Usize)
               [] ty_str = "bool" -> OkType(Bool)
               [] ty_str = "String" -> OkType(String)
               [] ty_str = "char" -> OkType(Char)
               [] OTHER -> ErrType("Unknown type: '" \o ty_str \o "'")

\* the loop of find_matching_paren from position i on, depth parentheses open
RECURSIVE matching_paren_from(_, _, _)
matching_paren_from(s, i, depth) ==
    IF i > Len(s) THEN 0
    ELSE IF char_at(s, i) = "(" THEN matching_paren_from(s, i + 1, depth + 1)
    ELSE IF char_at(s, i) = ")"
         THEN IF depth - 1 = 0 THEN i ELSE matching_paren_from(s, i + 1, depth - 1)
    ELSE matching_paren_from(s, i + 1, depth)

\* find_matching_paren that takes the end of the text for the closing parenthesis
find_matching_paren_or_end(s, open) ==
    IF matching_paren_from(s, open, 0) = 0 THEN Len(s) + 1
    ELSE matching_paren_from(s, open, 0)

\* the position of the parenthesis closing the one at open, 0 for
\* Err("Unmatched parenthesis")
find_matching_paren(s, open) == matching_paren_from(s, open, 0)

\* the loop of split_respecting_angle_brackets from position i on
RECURSIVE split_from(_, _, _, _)
split_from(s, i, depth, start) ==
    IF i > Len(s) THEN <<from(s, start)>>
    ELSE IF char_at(s, i) = "<" THEN split_from(s, i + 1, depth + 1, start)
    ELSE IF char_at(s, i) = ">" THEN split_from(s, i + 1, depth - 1, start)
    ELSE IF char_at(s, i) = "," /\ depth = 0
         THEN <<SubSeq(s, start, i - 1)>> \o split_from(s, i + 1, depth, i + 1)
    ELSE split_from(s, i + 1, depth, start)

\* the parameter list split at every comma
split_at_every_comma(s) == split(s, ",")

split_respecting_angle_brackets(s) == split_from(s, 1, 0, 1)

\* the loop of parse_params over the parts left, params being those pushed so far
RECURSIVE parse_parts(_, _)
parse_parts(parts, params) ==
    IF parts = <<>> THEN OkParams(params)
    ELSE LET part == trim(Head(parts))
             colon_pos == find(part, ":")
             name == trim(SubSeq(part, 1, colon_pos - 1))
             ty == parse_type(trim(from(part, colon_pos + 1)))
         IN  IF part = "" THEN parse_parts(Tail(parts), params)
             ELSE IF colon_pos = 0
             THEN ErrParams("Missing ':' in parameter: '" \o part \o "'")
             ELSE IF ~ty.ok THEN ErrParams(ty.err)
             ELSE parse_parts(Tail(parts), Append(params, Param(name, ty.ty)))

parse_params(params_str) ==
    LET trimmed == trim(params_str)
    IN  IF trimmed = "" THEN OkParams(<<>>)
        ELSE parse_parts(split_respecting_angle_brackets(trimmed), <<>>)

\* the return type read only after "-> ", with the space
parse_return_type_spaced(after_parens) ==
    IF starts_with(after_parens, "-> ")
    THEN parse_type(trim(from(after_parens, 4)))
    ELSE OkType(Void)

\* the return type of parse_signature, from the text after the parentheses
parse_return_type(after_parens) ==
    IF starts_with(after_parens, "->")
    THEN parse_type(trim(from(after_parens, 3)))
    ELSE OkType(Void)

parse_signature(sig0) ==
    LET sig == trim(sig0)
        rest == from(sig, 4)
        paren_open == find(rest, "(")
        name == trim(SubSeq(rest, 1, paren_open - 1))
        paren_close == find_matching_paren(rest, paren_open)
        params == parse_params(SubSeq(rest, paren_open + 1, paren_close - 1))
        after_parens == trim(from(rest, paren_close + 1))
        return_type == parse_return_type(after_parens)
    IN  IF ~starts_with(sig, "fn ") THEN ErrSig("Signature must start with 'fn '")
        ELSE IF paren_open = 0 THEN ErrSig("Missing opening parenthesis")
        ELSE IF paren_close = 0 THEN ErrSig("Unmatched parenthesis")
        ELSE IF ~params.ok THEN ErrSig(params.err)
        ELSE IF ~return_type.ok THEN ErrSig(return_type.err)
        ELSE OkSig(FunctionSignature(name, params.params, return_type.ty))

-----------------------------------------------------------------------------
(* The type translator *)

RECURSIVE translate_type_rs(_)
translate_type_rs(ty) ==
    CASE ty.tag = "I32" -> "i32"
      [] ty.tag = "F64" -> "f64"
      [] ty.tag = "Usize" -> "usize"
      [] ty.tag = "Bool" -> "bool"
      [] ty.tag = "String" -> "String"
      [] ty.tag = "Char" -> "char"
      [] ty.tag = "Vec" -> "Vec<" \o translate_type_rs(ty.inner) \o ">"
      [] ty.tag = "MutRef" -> "&mut " \o translate_type_rs(ty.inner)
      [] ty.tag = "Void" -> "()"

RECURSIVE translate_type_py(_)
translate_type_py(ty) ==
    CASE ty.tag = "I32" -> "int"
      [] ty.tag = "F64" -> "float"
      [] ty.tag = "Usize" -> "int"
      [] ty.tag = "Bool" -> "bool"
      [] ty.tag = "String" -> "str"
      [] ty.tag = "Char" -> "str"
      [] ty.tag = "Vec" -> "list[" \o translate_type_py(ty.inner) \o "]"
      [] ty.tag = "MutRef" -> translate_type_py(ty.inner)
      [] ty.tag = "Void" -> "None"

RECURSIVE translate_type_kt(_)
translate_type_kt(ty) ==
    CASE ty.tag = "I32" -> "Int"
      [] ty.tag = "F64" -> "Double"
      [] ty.tag = "Usize" -> "Int"
      [] ty.tag = "Bool" -> "Boolean"
      [] ty.tag = "String" -> "String"
      [] ty.tag = "Char" -> "Char"
      [] ty.tag = "Vec" -> "MutableList<" \o translate_type_kt(ty.inner) \o ">"
      [] ty.tag = "MutRef" -> translate_type_kt(ty.inner)
      [] ty.tag = "Void" -> "Unit"

RECURSIVE translate_type_java(_)
translate_type_java(ty) ==
    CASE ty.tag = "I32" -> "int"
      [] ty.tag = "F64" -> "double"
      [] ty.tag = "Usize" -> "int"
      [] ty.tag = "Bool" -> "boolean"
      [] ty.tag = "String" -> "String"
      [] ty.tag = "Char" -> "char"
      [] ty.tag = "Vec" -> translate_type_java(ty.inner) \o "[]"
      [] ty.tag = "MutRef" -> translate_type_java(ty.inner)
      [] ty.tag = "Void" -> "void"

RECURSIVE translate_type_c(_)
translate_type_c(ty) ==
    CASE ty.tag = "I32" -> "int"
      [] ty.tag = "F64" -> "double"
      [] ty.tag = "Usize" -> "size_t"
      [] ty.tag = "Bool" -> "bool"
      [] ty.tag = "String" -> "char*"
      [] ty.tag = "Char" -> "char"
      [] ty.tag = "Vec" -> translate_type_c(ty.inner) \o "*"
      [] ty.tag = "MutRef" -> translate_type_c(ty.inner)
      [] ty.tag = "Void" -> "void"

RECURSIVE translate_type_cpp(_)
translate_type_cpp(ty) ==
    CASE ty.tag = "I32" -> "int"
      [] ty.tag = "F64" -> "double"
      [] ty.tag = "Usize" -> "size_t"
      [] ty.tag = "Bool" -> "bool"
      [] ty.tag = "String" -> "std::string"
      [] ty.tag = "Char" -> "char"
      [] ty.tag = "Vec" -> "std::vector<" \o translate_type_cpp(ty.inner) \o ">"
      [] ty.tag = "MutRef" -> translate_type_cpp(ty.inner) \o "&"
      [] ty.tag = "Void" -> "void"

\* translate_type with the erased reference of Python erased to nothing
translate_type_erasing(ty, lang) ==
    CASE lang = "Rs" -> translate_type_rs(ty)
      [] lang = "Py" -> IF ty.tag = "MutRef" THEN "" ELSE translate_type_py(ty)
      [] lang = "Kt" -> translate_type_kt(ty)
      [] lang = "Java" -> translate_type_java(ty)
      [] lang = "C" -> translate_type_c(ty)
      [] lang = "Cpp" -> translate_type_cpp(ty)

translate_type(ty, lang) ==
    CASE lang = "Rs" -> translate_type_rs(ty)
      [] lang = "Py" -> translate_type_py(ty)
      [] lang = "Kt" -> translate_type_kt(ty)
      [] lang = "Java" -> translate_type_java(ty)
      [] lang = "C" -> translate_type_c(ty)
      [] lang = "Cpp" -> translate_type_cpp(ty)

-----------------------------------------------------------------------------
(* The value renderer *)

\* serde_json::Value; a float is kept as its number of tenths
JNull == [kind |-> "null"]
JBool(b) == [kind |-> "bool", b |-> b]
JInt(n) == [kind |-> "int", n |-> n]
JFloat(tenths) == [kind |-> "float", tenths |-> tenths]
JString(str) == [kind |-> "string", s |-> str]
JArray(items) == [kind |-> "array", items |-> items]

\* value.as_i64().unwrap_or(0): a number written with a fraction is no i64
as_i64_or_0(value) == IF value.kind = "int" THEN value.n ELSE 0

\* value.as_f64().unwrap_or(0.0), in tenths
as_f64_or_0(value) ==
    CASE value.kind = "int" -> 10 * value.n
      [] value.kind = "float" -> value.tenths
      [] OTHER -> 0

as_bool_or_false(value) == IF value.kind = "bool" THEN value.b ELSE FALSE

\* value.as_str().unwrap_or(default)
as_str_or(value, default) == IF value.kind = "string" THEN value.s ELSE default

\* format!("{}", n) of an i64
format_i64(n) == IF n < 0 THEN "-" \o to_string(0 - n) ELSE to_string(n)

\* format!("{}", n) alone: Rust writes a whole f64 without a fraction
format_f64_display(tenths) ==
    IF tenths < 0
    THEN IF (0 - tenths) % 10 = 0 THEN "-" \o to_string((0 - tenths) \div 10)
         ELSE "-" \o to_string((0 - tenths) \div 10) \o "." \o to_string((0 - tenths) % 10)
    ELSE IF tenths % 10 = 0 THEN to_string(tenths \div 10)
         ELSE to_string(tenths \div 10) \o "." \o to_string(tenths % 10)

\* if n.fract() == 0.0 { format!("{:.1}", n) } else { format!("{}", n) }
format_f64(tenths) ==
    LET abs == IF tenths < 0 THEN 0 - tenths ELSE tenths
        sign == IF tenths < 0 THEN "-" ELSE ""
    IN  IF abs % 10 = 0 THEN sign \o to_string(abs \div 10) \o ".0"
        ELSE sign \o to_string(abs \div 10) \o "." \o to_string(abs % 10)

\* s.chars().next().unwrap_or('?')
first_char_or(str, default) == IF str = "" THEN default ELSE char_at(str, 1)

\* items.join(sep)
RECURSIVE join(_, _)
join(items, sep) ==
    IF Len(items) = 0 THEN ""
    ELSE IF Len(items) = 1 THEN items[1]
    ELSE items[1] \o sep \o join(Tail(items), sep)

RECURSIVE render_value_rs(_, _)
render_value_rs(value, ty) ==
    CASE ty.tag \in {"I32", "Usize"} -> format_i64(as_i64_or_0(value))
      [] ty.tag = "F64" -> format_f64(as_f64_or_0(value))
      [] ty.tag = "Bool" -> IF as_bool_or_false(value) THEN "true" ELSE "false"
      [] ty.tag = "String" -> "\"" \o as_str_or(value, "") \o "\".to_string()"
      [] ty.tag = "Char" -> "'" \o first_char_or(as_str_or(value, "?"), "?") \o "'"
      [] ty.tag = "Vec" ->
            IF value.kind = "array"
            THEN LET items == [i \in 1..Len(value.items) |-> render_value_rs(value.items[i], ty.inner)]
                 IN  "vec![" \o join(items, ", ") \o "]"
            ELSE "vec![]"
      [] ty.tag = "MutRef" -> render_value_rs(value, ty.inner)
      [] ty.tag = "Void" -> "()"

RECURSIVE render_value_py(_, _)
render_value_py(value, ty) ==
    CASE ty.tag \in {"I32", "Usize"} -> format_i64(as_i64_or_0(value))
      [] ty.tag = "F64" -> format_f64(as_f64_or_0(value))
      [] ty.tag = "Bool" -> IF as_bool_or_false(value) THEN "True" ELSE "False"
      [] ty.tag = "String" -> "\"" \o as_str_or(value, "") \o "\""
      [] ty.tag = "Char" -> "\"" \o as_str_or(value, "?") \o "\""
      [] ty.tag = "Vec" ->
            IF value.kind = "array"
            THEN LET items == [i \in 1..Len(value.items) |-> render_value_py(value.items[i], ty.inner)]
                 IN  "[" \o join(items, ", ") \o "]"
            ELSE "[]"
      [] ty.tag = "MutRef" -> render_value_py(value, ty.inner)
      [] ty.tag = "Void" -> "None"

RECURSIVE render_value_kt(_, _)
render_value_kt(value, ty) ==
    CASE ty.tag \in {"I32", "Usize"} -> format_i64(as_i64_or_0(value))
      [] ty.tag = "F64" -> format_f64(as_f64_or_0(value))
      [] ty.tag = "Bool" -> IF as_bool_or_false(value) THEN "true" ELSE "false"
      [] ty.tag = "String" -> "\"" \o as_str_or(value, "") \o "\""
      [] ty.tag = "Char" -> "'" \o first_char_or(as_str_or(value, "?"), "?") \o "'"
      [] ty.tag = "Vec" ->
            IF value.kind = "array"
            THEN LET items == [i \in 1..Len(value.items) |-> render_value_kt(value.items[i], ty.inner)]
                 IN  "mutableListOf(" \o join(items, ", ") \o ")"
            ELSE "mutableListOf()"
      [] ty.tag = "MutRef" -> render_value_kt(value, ty.inner)
      [] ty.tag = "Void" -> "Unit"

RECURSIVE render_value_java(_, _)
render_value_java(value, ty) ==
    CASE ty.tag \in {"I32", "Usize"} -> format_i64(as_i64_or_0(value))
      [] ty.tag = "F64" -> format_f64(as_f64_or_0(value))
      [] ty.tag = "Bool" -> IF as_bool_or_false(value) THEN "true" ELSE "false"
      [] ty.tag = "String" -> "\"" \o as_str_or(value, "") \o "\""
      [] ty.tag = "Char" -> "'" \o first_char_or(as_str_or(value, "?"), "?") \o "'"
      [] ty.tag = "Vec" ->
            IF value.kind = "array"
            THEN LET items == [i \in 1..Len(value.items) |-> render_value_java(value.items[i], ty.inner)]
                 IN  "new " \o translate_type_java(ty.inner) \o "[] {" \o join(items, ", ") \o "}"
            ELSE "new " \o translate_type_java(ty.inner) \o "[] {}"
      [] ty.tag = "MutRef" -> render_value_java(value, ty.inner)
      [] ty.tag = "Void" -> ""

RECURSIVE render_value_c(_, _)
render_value_c(value, ty) ==
    CASE ty.tag \in {"I32", "Usize"} -> format_i64(as_i64_or_0(value))
      [] ty.tag = "F64" -> format_f64(as_f64_or_0(value))
      [] ty.tag = "Bool" -> IF as_bool_or_false(value) THEN "true" ELSE "false"
      [] ty.tag = "String" -> "\"" \o as_str_or(value, "") \o "\""
      [] ty.tag = "Char" -> "'" \o first_char_or(as_str_or(value, "?"), "?") \o "'"
      [] ty.tag = "Vec" ->
            IF value.kind = "array"
            THEN LET items == [i \in 1..Len(value.items) |-> render_value_c(value.items[i], ty.inner)]
                 IN  "{" \o join(items, ", ") \o "}"
            ELSE "{}"
      [] ty.tag = "MutRef" -> render_value_c(value, ty.inner)
      [] ty.tag = "Void" -> ""

RECURSIVE render_value_cpp(_, _)
render_value_cpp(value, ty) ==
    CASE ty.tag \in {"I32", "Usize"} -> format_i64(as_i64_or_0(value))
      [] ty.tag = "F64" -> format_f64(as_f64_or_0(value))
      [] ty.tag = "Bool" -> IF as_bool_or_false(value) THEN "true" ELSE "false"
      [] ty.tag = "String" -> "\"" \o as_str_or(value, "") \o "\""
      [] ty.tag = "Char" -> "'" \o first_char_or(as_str_or(value, "?"), "?") \o "'"
      [] ty.tag = "Vec" ->
            IF value.kind = "array"
            THEN LET items == [i \in 1..Len(value.items) |-> render_value_cpp(value.items[i], ty.inner)]
                 IN  "{" \o join(items, ", ") \o "}"
            ELSE "{}"
      [] ty.tag = "MutRef" -> render_value_cpp(value, ty.inner)
      [] ty.tag = "Void" -> ""

\* render_value with a value that is no list rendered as null for Java
render_value_null_list(value, ty, lang) ==
    CASE lang = "Rs" -> render_value_rs(value, ty)
      [] lang = "Py" -> render_value_py(value, ty)
      [] lang = "Kt" -> render_value_kt(value, ty)
      [] lang = "Java" -> IF ty.tag = "Vec" /\ value.kind # "array" THEN "null"
                          ELSE render_value_java(value, ty)
      [] lang = "C" -> render_value_c(value, ty)
      [] lang = "Cpp" -> render_value_cpp(value, ty)

\* render_value with a reference rendered as an address for C
render_value_address(value, ty, lang) ==
    CASE lang = "Rs" -> render_value_rs(value, ty)
      [] lang = "Py" -> render_value_py(value, ty)
      [] lang = "Kt" -> render_value_kt(value, ty)
      [] lang = "Java" -> render_value_java(value, ty)
      [] lang = "C" -> IF ty.tag = "MutRef" THEN "&" \o render_value_c(value, ty.inner)
                       ELSE render_value_c(value, ty)
      [] lang = "Cpp" -> render_value_cpp(value, ty)

render_value(value, ty, lang) ==
    CASE lang = "Rs" -> render_value_rs(value, ty)
      [] lang = "Py" -> render_value_py(value, ty)
      [] lang = "Kt" -> render_value_kt(value, ty)
      [] lang = "Java" -> render_value_java(value, ty)
      [] lang = "C" -> render_value_c(value, ty)
      [] lang = "Cpp" -> render_value_cpp(value, ty)

-----------------------------------------------------------------------------
(* The generated test files, each as the sequence of its lines *)

\* serde_json::Value::Object, its fields a function from their names
JObject(fields) == [kind |-> "object", fields |-> fields]

\* TestCase { input, expected }
TestCase(input, expected) == [input |-> input, expected |-> expected]

has_mut_ref_params(sig) ==
    \E i \in 1..Len(sig.params) : sig.params[i].ty.tag = "MutRef"

\* the classification with the return type left out
is_void_with_mut_ref_any_return(sig) == has_mut_ref_params(sig)

is_void_with_mut_ref(sig) ==
    sig.return_type = Void /\ has_mut_ref_params(sig)

unwrap_mut_ref(ty) == IF ty.tag = "MutRef" THEN ty.inner ELSE ty

\* sig.params.iter().find(|p| matches!(&p.ty, RustType::MutRef(_))): the
\* parameter found, or nothing
RECURSIVE find_mut_ref(_)
find_mut_ref(params) ==
    IF Len(params) = 0 THEN <<>>
    ELSE IF Head(params).ty.tag = "MutRef" THEN <<Head(params)>>
    ELSE find_mut_ref(Tail(params))

\* the lines pushed one block after another
RECURSIVE flatten(_)
flatten(blocks) ==
    IF Len(blocks) = 0 THEN <<>> ELSE Head(blocks) \o flatten(Tail(blocks))

\* test_fns.join("\n\n"): a blank line between two blocks, one empty line of none
RECURSIVE join_blocks(_)
join_blocks(blocks) ==
    IF Len(blocks) = 0 THEN <<"">>
    ELSE IF Len(blocks) = 1 THEN blocks[1]
    ELSE blocks[1] \o <<"">> \o join_blocks(Tail(blocks))

\* the names of the parameters that inputs.get(&p.name) finds, in order
supplied_names(params, inputs) ==
    flatten([i \in 1..Len(params) |->
                IF params[i].name \in DOMAIN inputs THEN <<params[i].name>> ELSE <<>>])

\* sig.params.iter().map(|p| p.name.clone()).collect()
param_names(params) == [i \in 1..Len(params) |-> params[i].name]

\* the body of one test function of generate_rust_tests
rust_test_body(sig, test) ==
    IF test.input.kind # "object" THEN <<>>
    ELSE LET inputs == test.input.fields
             params == sig.params
         IN  IF is_void_with_mut_ref(sig)
             THEN flatten([i \in 1..Len(params) |->
                      IF params[i].name \notin DOMAIN inputs THEN <<>>
                      ELSE IF params[i].ty.tag = "MutRef"
                      THEN <<"        let mut " \o params[i].name \o " = "
                               \o render_value(inputs[params[i].name], params[i].ty.inner, "Rs")
                               \o ";">>
                      ELSE <<"        let " \o params[i].name \o " = "
                               \o render_value(inputs[params[i].name], params[i].ty, "Rs")
                               \o ";">>])
                  \o <<"        " \o sig.name \o "("
                         \o join([i \in 1..Len(params) |->
                                    IF params[i].ty.tag = "MutRef"
                                    THEN "&mut " \o params[i].name
                                    ELSE params[i].name], ", ")
                         \o ");">>
                  \o [i \in 1..Len(find_mut_ref(params)) |->
                        "        assert_eq!(" \o find_mut_ref(params)[i].name \o ", "
                          \o render_value(test.expected,
                                          unwrap_mut_ref(find_mut_ref(params)[i].ty), "Rs")
                          \o ");"]
             ELSE flatten([i \in 1..Len(params) |->
                      IF params[i].name \notin DOMAIN inputs THEN <<>>
                      ELSE <<"        let " \o params[i].name \o " = "
                               \o render_value(inputs[params[i].name], params[i].ty, "Rs")
                               \o ";">>])
                  \o <<"        let result = " \o sig.name \o "("
                         \o join(supplied_names(params, inputs), ", ") \o ");">>
                  \o <<"        assert_eq!(result, "
                         \o render_value(test.expected, sig.return_type, "Rs") \o ");">>

generate_rust_tests(sig, tests) ==
    <<"", "#[cfg(test)]", "mod tests {", "    use super::*;", "">>
    \o join_blocks([i \in 1..Len(tests) |->
                      <<"    #[test]", "    fn test_" \o to_string(i) \o "() {">>
                      \o rust_test_body(sig, tests[i])
                      \o <<"    }">>])
    \o <<"}">>

\* the body of one test function of generate_python_tests
python_test_body(sig, test) ==
    IF test.input.kind # "object" THEN <<>>
    ELSE LET inputs == test.input.fields
             params == sig.params
             declarations ==
                 flatten([i \in 1..Len(params) |->
                     IF params[i].name \notin DOMAIN inputs THEN <<>>
                     ELSE <<"    " \o params[i].name \o " = "
                              \o render_value(inputs[params[i].name],
                                              unwrap_mut_ref(params[i].ty), "Py")>>])
         IN  IF is_void_with_mut_ref(sig)
             THEN declarations
                  \o <<"    " \o sig.name \o "(" \o join(param_names(params), ", ") \o ")">>
                  \o [i \in 1..Len(find_mut_ref(params)) |->
                        "    assert " \o find_mut_ref(params)[i].name \o " == "
                          \o render_value(test.expected,
                                          unwrap_mut_ref(find_mut_ref(params)[i].ty), "Py")]
             ELSE declarations
                  \o <<"    result = " \o sig.name \o "("
                         \o join(supplied_names(params, inputs), ", ") \o ")">>
                  \o <<"    assert result == "
                         \o render_value(test.expected, sig.return_type, "Py")>>

\* test_fns.join("\n") of the import line and the test functions, each of
\* which begins and ends with a line break
generate_python_tests(sig, tests) ==
    <<"from solution import " \o sig.name, "">>
    \o flatten([i \in 1..Len(tests) |->
                  <<"", "def test_" \o to_string(i) \o "():">>
                  \o python_test_body(sig, tests[i])
                  \o <<"">>])

\* the body of one test function of generate_kotlin_tests
kotlin_test_body(sig, test) ==
    IF test.input.kind # "object" THEN <<>>
    ELSE LET inputs == test.input.fields
             params == sig.params
             declarations ==
                 flatten([i \in 1..Len(params) |->
                     IF params[i].name \notin DOMAIN inputs THEN <<>>
                     ELSE <<"        val " \o params[i].name \o " = "
                              \o render_value(inputs[params[i].name],
                                              unwrap_mut_ref(params[i].ty), "Kt")>>])
         IN  IF is_void_with_mut_ref(sig)
             THEN declarations
                  \o <<"        " \o sig.name \o "(" \o join(param_names(params), ", ") \o ")">>
                  \o [i \in 1..Len(find_mut_ref(params)) |->
                        "        assertEquals("
                          \o render_value(test.expected,
                                          unwrap_mut_ref(find_mut_ref(params)[i].ty), "Kt")
                          \o ", " \o find_mut_ref(params)[i].name \o ")"]
             ELSE declarations
                  \o <<"        val result = " \o sig.name \o "("
                         \o join(supplied_names(params, inputs), ", ") \o ")">>
                  \o <<"        assertEquals("
                         \o render_value(test.expected, sig.return_type, "Kt")
                         \o ", result)">>

generate_kotlin_tests(sig, tests) ==
    <<"package codle", "", "import kotlin.test.Test", "import kotlin.test.assertEquals",
      "", "class AppTest {">>
    \o join_blocks([i \in 1..Len(tests) |->
                      <<"    @Test", "    fun test" \o to_string(i) \o "() {">>
                      \o kotlin_test_body(sig, tests[i])
                      \o <<"    }">>])
    \o <<"}">>

\* the body of one test method of generate_java_tests
java_test_body(sig, test) ==
    IF test.input.kind # "object" THEN <<>>
    ELSE LET inputs == test.input.fields
             params == sig.params
             declarations ==
                 flatten([i \in 1..Len(params) |->
                     IF params[i].name \notin DOMAIN inputs THEN <<>>
                     ELSE <<"        "
                              \o translate_type(unwrap_mut_ref(params[i].ty), "Java")
                              \o " " \o params[i].name \o " = "
                              \o render_value(inputs[params[i].name],
                                              unwrap_mut_ref(params[i].ty), "Java")
                              \o ";">>])
         IN  IF is_void_with_mut_ref(sig)
             THEN declarations
                  \o <<"        App." \o sig.name \o "("
                         \o join(param_names(params), ", ") \o ");">>
                  \o [i \in 1..Len(find_mut_ref(params)) |->
                        "        assertArrayEquals("
                          \o render_value(test.expected,
                                          unwrap_mut_ref(find_mut_ref(params)[i].ty), "Java")
                          \o ", " \o find_mut_ref(params)[i].name \o ");"]
             ELSE declarations
                  \o <<"        " \o translate_type(sig.return_type, "Java")
                         \o " result = App." \o sig.name \o "("
                         \o join(supplied_names(params, inputs), ", ") \o ");">>
                  \o <<(IF sig.return_type.tag = "Vec"
                        THEN "        assertArrayEquals(" ELSE "        assertEquals(")
                         \o render_value(test.expected, sig.return_type, "Java")
                         \o ", result);">>

generate_java_tests(sig, tests) ==
    <<"package codle;", "", "import org.junit.jupiter.api.Test;",
      "import static org.junit.jupiter.api.Assertions.*;", "", "class AppTest {">>
    \o join_blocks([i \in 1..Len(tests) |->
                      <<"    @Test", "    void test" \o to_string(i) \o "() {">>
                      \o java_test_body(sig, tests[i])
                      \o <<"    }">>])
    \o <<"}">>

\* val.as_array().map(|a| a.len()).unwrap_or(0)
array_len_or_0(value) == IF value.kind = "array" THEN Len(value.items) ELSE 0

\* the element-by-element comparison that generate_c_tests writes of the array
\* named subject, each expected element rendered against the type elem
c_array_comparison(subject, expected, elem, test_num) ==
    IF expected.kind # "array" THEN <<>>
    ELSE <<"        int test_passed = 1;">>
         \o [j \in 1..Len(expected.items) |->
               "        if (" \o subject \o "[" \o to_string(j - 1) \o "] != "
                 \o render_value(expected.items[j], elem, "C") \o ") test_passed = 0;"]
         \o <<"        if (test_passed) { printf(\"Test " \o to_string(test_num)
                \o ": PASS\\n\"); passed++; }",
              "        else { printf(\"Test " \o to_string(test_num)
                \o ": FAIL\\n\"); failed++; }">>

\* the declarations of one test block of generate_c_tests
c_declarations(params, inputs) ==
    flatten([i \in 1..Len(params) |->
        IF params[i].name \notin DOMAIN inputs THEN <<>>
        ELSE IF unwrap_mut_ref(params[i].ty).tag = "Vec"
        THEN <<"        " \o translate_type(unwrap_mut_ref(params[i].ty).inner, "C")
                 \o " " \o params[i].name \o "_arr[] = "
                 \o render_value(inputs[params[i].name], unwrap_mut_ref(params[i].ty), "C")
                 \o ";",
               "        int " \o params[i].name \o "_len = "
                 \o to_string(array_len_or_0(inputs[params[i].name])) \o ";">>
        ELSE <<"        " \o translate_type(unwrap_mut_ref(params[i].ty), "C")
                 \o " " \o params[i].name \o " = "
                 \o render_value(inputs[params[i].name], unwrap_mut_ref(params[i].ty), "C")
                 \o ";">>])

\* call_args of one test block of generate_c_tests
c_call_args(params, inputs) ==
    flatten([i \in 1..Len(params) |->
        IF params[i].name \notin DOMAIN inputs THEN <<>>
        ELSE IF unwrap_mut_ref(params[i].ty).tag = "Vec"
        THEN <<params[i].name \o "_arr", params[i].name \o "_len">>
        ELSE <<params[i].name>>])

\* one test block of generate_c_tests
c_test_block(sig, test, test_num) ==
    IF test.input.kind # "object" THEN <<>>
    ELSE LET inputs == test.input.fields
             params == sig.params
             call == sig.name \o "(" \o join(c_call_args(params, inputs), ", ") \o ");"
         IN  <<"    // Test " \o to_string(test_num), "    {">>
             \o c_declarations(params, inputs)
             \o (IF is_void_with_mut_ref(sig)
                 THEN <<"        " \o call>>
                      \o flatten([i \in 1..Len(find_mut_ref(params)) |->
                            IF unwrap_mut_ref(find_mut_ref(params)[i].ty).tag = "Vec"
                            THEN c_array_comparison(find_mut_ref(params)[i].name \o "_arr",
                                                    test.expected, I32, test_num)
                            ELSE <<>>])
                 ELSE IF sig.return_type.tag = "Vec"
                 THEN <<"        " \o translate_type(sig.return_type.inner, "C")
                          \o "* result = " \o call>>
                      \o c_array_comparison("result", test.expected,
                                            sig.return_type.inner, test_num)
                 ELSE <<"        " \o translate_type(sig.return_type, "C")
                          \o " result = " \o call,
                        "        if (result == "
                          \o render_value(test.expected, sig.return_type, "C")
                          \o ") { printf(\"Test " \o to_string(test_num)
                          \o ": PASS\\n\"); passed++; }",
                        "        else { printf(\"Test " \o to_string(test_num)
                          \o ": FAIL (expected "
                          \o render_value(test.expected, sig.return_type, "C")
                          \o ", got %d)\\n\", result); failed++; }">>)
             \o <<"    }", "">>

generate_c_tests(sig, tests) ==
    <<"#include <stdio.h>", "#include <stdbool.h>", "#include <stdlib.h>",
      "#include <string.h>", "",
      "// Forward declaration - implemented in solution.c", "",
      "int main() {", "    int passed = 0, failed = 0;", "">>
    \o flatten([i \in 1..Len(tests) |-> c_test_block(sig, tests[i], i)])
    \o <<"    printf(\"\\n%d/%d tests passed\\n\", passed, passed + failed);",
         "    return failed > 0 ? 1 : 0;", "}", "">>

\* one test block of generate_cpp_tests
cpp_test_block(sig, test, test_num) ==
    IF test.input.kind # "object" THEN <<>>
    ELSE LET inputs == test.input.fields
             params == sig.params
             declarations ==
                 flatten([i \in 1..Len(params) |->
                     IF params[i].name \notin DOMAIN inputs THEN <<>>
                     ELSE <<"        "
                              \o translate_type(unwrap_mut_ref(params[i].ty), "Cpp")
                              \o " " \o params[i].name \o " = "
                              \o render_value(inputs[params[i].name],
                                              unwrap_mut_ref(params[i].ty), "Cpp")
                              \o ";">>])
             verdict ==
                 <<" { std::cout << \"Test " \o to_string(test_num)
                     \o ": PASS\" << std::endl; passed++; }",
                   "        else { std::cout << \"Test " \o to_string(test_num)
                     \o ": FAIL\" << std::endl; failed++; }">>
         IN  <<"    // Test " \o to_string(test_num), "    {">>
             \o declarations
             \o (IF is_void_with_mut_ref(sig)
                 THEN <<"        " \o sig.name \o "("
                          \o join(param_names(params), ", ") \o ");">>
                      \o flatten([i \in 1..Len(find_mut_ref(params)) |->
                            <<"        if (" \o find_mut_ref(params)[i].name \o " == "
                                \o render_value(test.expected,
                                      unwrap_mut_ref(find_mut_ref(params)[i].ty), "Cpp")
                                \o ")" \o verdict[1],
                              verdict[2]>>])
                 ELSE <<"        auto result = " \o sig.name \o "("
                          \o join(supplied_names(params, inputs), ", ") \o ");",
                        "        if (result == "
                          \o render_value(test.expected, sig.return_type, "Cpp")
                          \o ")" \o verdict[1],
                        verdict[2]>>)
             \o <<"    }", "">>

generate_cpp_tests(sig, tests) ==
    <<"#include <iostream>", "#include <vector>", "#include <string>", "",
      "// Forward declaration - implemented in solution.cpp",
      translate_type(sig.return_type, "Cpp") \o " " \o sig.name \o "("
        \o join([i \in 1..Len(sig.params) |->
                   translate_type(sig.params[i].ty, "Cpp") \o " " \o sig.params[i].name],
                ", ")
        \o ");",
      "", "int main() {", "    int passed = 0, failed = 0;", "">>
    \o flatten([i \in 1..Len(tests) |-> cpp_test_block(sig, tests[i], i)])
    \o <<"    std::cout << std::endl << passed << \"/\" << (passed + failed) << \" tests passed\" << std::endl;",
         "    return failed > 0 ? 1 : 0;", "}", "">>

\* the test file that generate_scaffold's target writes
generate_tests(sig, tests, lang) ==
    CASE lang = "Rs" -> generate_rust_tests(sig, tests)
      [] lang = "Py" -> generate_python_tests(sig, tests)
      [] lang = "Kt" -> generate_kotlin_tests(sig, tests)
      [] lang = "Java" -> generate_java_tests(sig, tests)
      [] lang = "C" -> generate_c_tests(sig, tests)
      [] lang = "Cpp" -> generate_cpp_tests(sig, tests)

-----------------------------------------------------------------------------
(* Difficulty tiers, the user's config and the project metadata *)

Difficulty == {"Easy", "Medium", "Hard", "Extreme"}

tier_offset(tier) ==
    CASE tier = "Easy" -> 0
      [] tier = "Medium" -> 1
      [] tier = "Hard" -> 2
      [] tier = "Extreme" -> 3

\* calculate_boss_score with the whole streak as its bonus
calculate_boss_score_uncapped(challenge_difficulty, tier, streak) ==
    challenge_difficulty + tier_offset(tier) + streak

calculate_boss_score(challenge_difficulty, tier, streak) ==
    LET base == challenge_difficulty
        tier_bonus == tier_offset(tier)
        streak_bonus == IF streak < 5 THEN streak ELSE 5
    IN  base + tier_bonus + streak_bonus

\* Option<String> of a date
NoDate == [some |-> FALSE, day |-> 0]
SomeDate(day) == [some |-> TRUE, day |-> day]

\* UserConfig::default()
DefaultConfig ==
    [difficulty |-> "Medium", boss_score |-> 0, challenges_completed |-> 0,
     current_streak |-> 0, longest_streak |-> 0, last_completed_date |-> NoDate]

\* ProjectMetadata, as far as the commands read it
ProjectMetadata(language, difficulty, challenge_difficulty) ==
    [language |-> language, difficulty |-> difficulty,
     challenge_difficulty |-> challenge_difficulty]

\* a file of the challenge's directory that holds metadata: setup.sh embeds the
\* metadata in a here-document, and running it writes .codle.json
NoFile == [present |-> FALSE, executable |-> FALSE, metadata |-> ProjectMetadata("Rs", "Easy", 0)]
File(metadata, executable) == [present |-> TRUE, executable |-> executable, metadata |-> metadata]

NoDir == [exists |-> FALSE, setup_sh |-> NoFile, codle_json |-> NoFile]
Dir(setup_sh, codle_json) == [exists |-> TRUE, setup_sh |-> setup_sh, codle_json |-> codle_json]

\* project::load(&current_dir), run inside the challenge's directory
project_load(dir) == [ok |-> dir.exists /\ dir.codle_json.present, metadata |-> dir.codle_json.metadata]

-----------------------------------------------------------------------------
(* The commands: what each decides, as a function of what it reads *)

\* test_solution that fails on failed tests only
test_solution_failed_only(dir, result) ==
    LET loaded == project_load(dir)
    IN  IF ~loaded.ok THEN [exit_code |-> 1, ran_tests |-> FALSE]
        ELSE IF ~result.ok THEN [exit_code |-> 1, ran_tests |-> TRUE]
        ELSE IF result.failed > 0 THEN [exit_code |-> 1, ran_tests |-> TRUE]
        ELSE [exit_code |-> 0, ran_tests |-> TRUE]

\* test_solution, given the directory it runs in and what run_tests returns
test_solution(dir, result) ==
    LET loaded == project_load(dir)
    IN  IF ~loaded.ok THEN [exit_code |-> 1, ran_tests |-> FALSE]
        ELSE IF ~result.ok THEN [exit_code |-> 1, ran_tests |-> TRUE]
        ELSE IF result.total = 0 \/ result.failed > 0
             THEN [exit_code |-> 1, ran_tests |-> TRUE]
        ELSE [exit_code |-> 0, ran_tests |-> TRUE]

\* submit_solution that scores with the tier of the config it loads
submit_solution_config_tier(dir, config, now, result, save_ok) ==
    LET loaded == project_load(dir)
        metadata == loaded.metadata
        last_date == config.last_completed_date
        yesterday == now - 1
        streak == IF last_date.some /\ last_date.day = yesterday
                  THEN config.current_streak + 1
                  ELSE 1
        points == calculate_boss_score(metadata.challenge_difficulty,
                                       config.difficulty, streak)
        updated == [config EXCEPT
                      !.boss_score = config.boss_score + points,
                      !.challenges_completed = config.challenges_completed + 1,
                      !.last_completed_date = SomeDate(now),
                      !.current_streak = streak,
                      !.longest_streak = IF streak > config.longest_streak
                                         THEN streak ELSE config.longest_streak]
    IN  IF ~loaded.ok
        THEN [exit_code |-> 1, ran_tests |-> FALSE, user_config |-> config]
        ELSE IF last_date.some /\ last_date.day = now
        THEN [exit_code |-> 0, ran_tests |-> FALSE, user_config |-> config]
        ELSE IF ~result.ok \/ result.total = 0 \/ result.failed > 0 \/ ~save_ok
        THEN [exit_code |-> 1, ran_tests |-> TRUE, user_config |-> config]
        ELSE [exit_code |-> 0, ran_tests |-> TRUE, user_config |-> updated]

\* submit_solution without the check of the day of the last completion
submit_solution_every_run(dir, config, now, result, save_ok) ==
    LET loaded == project_load(dir)
        metadata == loaded.metadata
        last_date == config.last_completed_date
        streak == IF last_date.some /\ last_date.day = now - 1
                  THEN config.current_streak + 1
                  ELSE 1
        updated == [config EXCEPT
                      !.boss_score = config.boss_score
                                       + calculate_boss_score(metadata.challenge_difficulty,
                                                              metadata.difficulty, streak),
                      !.challenges_completed = config.challenges_completed + 1,
                      !.last_completed_date = SomeDate(now),
                      !.current_streak = streak,
                      !.longest_streak = IF streak > config.longest_streak
                                         THEN streak ELSE config.longest_streak]
    IN  IF ~loaded.ok
        THEN [exit_code |-> 1, ran_tests |-> FALSE, user_config |-> config]
        ELSE IF ~result.ok \/ result.total = 0 \/ result.failed > 0 \/ ~save_ok
        THEN [exit_code |-> 1, ran_tests |-> TRUE, user_config |-> config]
        ELSE [exit_code |-> 0, ran_tests |-> TRUE, user_config |-> updated]

\* submit_solution that takes a summary of no tests for a pass
submit_solution_unverified(dir, config, now, result, save_ok) ==
    LET loaded == project_load(dir)
        metadata == loaded.metadata
        last_date == config.last_completed_date
        streak == IF last_date.some /\ last_date.day = now - 1
                  THEN config.current_streak + 1
                  ELSE 1
        updated == [config EXCEPT
                      !.boss_score = config.boss_score
                                       + calculate_boss_score(metadata.challenge_difficulty,
                                                              metadata.difficulty, streak),
                      !.challenges_completed = config.challenges_completed + 1,
                      !.last_completed_date = SomeDate(now),
                      !.current_streak = streak,
                      !.longest_streak = IF streak > config.longest_streak
                                         THEN streak ELSE config.longest_streak]
    IN  IF ~loaded.ok
        THEN [exit_code |-> 1, ran_tests |-> FALSE, user_config |-> config]
        ELSE IF last_date.some /\ last_date.day = now
        THEN [exit_code |-> 0, ran_tests |-> FALSE, user_config |-> config]
        ELSE IF ~result.ok \/ result.failed > 0 \/ ~save_ok
        THEN [exit_code |-> 1, ran_tests |-> TRUE, user_config |-> config]
        ELSE [exit_code |-> 0, ran_tests |-> TRUE, user_config |-> updated]

\* submit_solution that lengthens the streak whatever the day of the last completion
submit_solution_keeping_streak(dir, config, now, result, save_ok) ==
    LET loaded == project_load(dir)
        metadata == loaded.metadata
        last_date == config.last_completed_date
        streak == IF last_date.some THEN config.current_streak + 1 ELSE 1
        updated == [config EXCEPT
                      !.boss_score = config.boss_score
                                       + calculate_boss_score(metadata.challenge_difficulty,
                                                              metadata.difficulty, streak),
                      !.challenges_completed = config.challenges_completed + 1,
                      !.last_completed_date = SomeDate(now),
                      !.current_streak = streak,
                      !.longest_streak = IF streak > config.longest_streak
                                         THEN streak ELSE config.longest_streak]
    IN  IF ~loaded.ok
        THEN [exit_code |-> 1, ran_tests |-> FALSE, user_config |-> config]
        ELSE IF last_date.some /\ last_date.day = now
        THEN [exit_code |-> 0, ran_tests |-> FALSE, user_config |-> config]
        ELSE IF ~result.ok \/ result.total = 0 \/ result.failed > 0 \/ ~save_ok
        THEN [exit_code |-> 1, ran_tests |-> TRUE, user_config |-> config]
        ELSE [exit_code |-> 0, ran_tests |-> TRUE, user_config |-> updated]

\* submit_solution that never raises longest_streak
submit_solution_without_longest(dir, config, now, result, save_ok) ==
    LET loaded == project_load(dir)
        metadata == loaded.metadata
        last_date == config.last_completed_date
        streak == IF last_date.some /\ last_date.day = now - 1
                  THEN config.current_streak + 1
                  ELSE 1
        updated == [config EXCEPT
                      !.boss_score = config.boss_score
                                       + calculate_boss_score(metadata.challenge_difficulty,
                                                              metadata.difficulty, streak),
                      !.challenges_completed = config.challenges_completed + 1,
                      !.last_completed_date = SomeDate(now),
                      !.current_streak = streak]
    IN  IF ~loaded.ok
        THEN [exit_code |-> 1, ran_tests |-> FALSE, user_config |-> config]
        ELSE IF last_date.some /\ last_date.day = now
        THEN [exit_code |-> 0, ran_tests |-> FALSE, user_config |-> config]
        ELSE IF ~result.ok \/ result.total = 0 \/ result.failed > 0 \/ ~save_ok
        THEN [exit_code |-> 1, ran_tests |-> TRUE, user_config |-> config]
        ELSE [exit_code |-> 0, ran_tests |-> TRUE, user_config |-> updated]

\* submit_solution, given the directory it runs in, the config it loads, the
\* date, what run_tests returns and whether save_config succeeds; user_config
\* is the config on disk when the command ends
submit_solution(dir, config, now, result, save_ok) ==
    LET loaded == project_load(dir)
        metadata == loaded.metadata
        last_date == config.last_completed_date
        yesterday == now - 1
        streak == IF last_date.some /\ last_date.day = yesterday
                  THEN config.current_streak + 1
                  ELSE 1
        points == calculate_boss_score(metadata.challenge_difficulty,
                                       metadata.difficulty, streak)
        updated == [config EXCEPT
                      !.boss_score = config.boss_score + points,
                      !.challenges_completed = config.challenges_completed + 1,
                      !.last_completed_date = SomeDate(now),
                      !.current_streak = streak,
                      !.longest_streak = IF streak > config.longest_streak
                                         THEN streak ELSE config.longest_streak]
    IN  IF ~loaded.ok
        THEN [exit_code |-> 1, ran_tests |-> FALSE, user_config |-> config]
        ELSE IF last_date.some /\ last_date.day = now
        THEN [exit_code |-> 0, ran_tests |-> FALSE, user_config |-> config]
        ELSE IF ~result.ok
        THEN [exit_code |-> 1, ran_tests |-> TRUE, user_config |-> config]
        ELSE IF result.total = 0
        THEN [exit_code |-> 1, ran_tests |-> TRUE, user_config |-> config]
        ELSE IF result.failed > 0
        THEN [exit_code |-> 1, ran_tests |-> TRUE, user_config |-> config]
        ELSE IF ~save_ok
        THEN [exit_code |-> 1, ran_tests |-> TRUE, user_config |-> config]
        ELSE [exit_code |-> 0, ran_tests |-> TRUE, user_config |-> updated]

\* handle_difficulty, given the config it loads and whether save_config succeeds
handle_difficulty(config, level, save_ok) ==
    IF ~level.some THEN [exit_code |-> 0, user_config |-> config]
    ELSE IF config.difficulty = level.tier THEN [exit_code |-> 0, user_config |-> config]
    ELSE IF ~save_ok THEN [exit_code |-> 1, user_config |-> config]
    ELSE [exit_code |-> 0, user_config |-> [config EXCEPT !.difficulty = level.tier]]

\* write_setup_script: fs::write, then the file is made executable
write_setup_script(dir, content, write_ok, chmod_ok) ==
    IF ~write_ok
    THEN [ok |-> FALSE, dir |-> dir, error |-> "Failed to write setup.sh"]
    ELSE IF ~chmod_ok
    THEN [ok |-> FALSE, dir |-> [dir EXCEPT !.setup_sh = File(content, FALSE)],
          error |-> "Failed to set permissions"]
    ELSE [ok |-> TRUE, dir |-> [dir EXCEPT !.setup_sh = File(content, TRUE)], error |-> ""]

\* generate_scaffold: every target builds its metadata and writes setup.sh
generate_scaffold(challenge, lang, difficulty, dir, write_ok, chmod_ok) ==
    write_setup_script(dir, ProjectMetadata(lang, difficulty, challenge.difficulty),
                       write_ok, chmod_ok)

\* init_challenge that removes what it created when generation fails
init_challenge_rolling_back(language, config, challenge, dir, mkdir_ok, write_ok, chmod_ok) ==
    LET sig == parse_signature(challenge.function_signature)
        scaffold == generate_scaffold(challenge, language, config.difficulty,
                                      Dir(NoFile, NoFile), write_ok, chmod_ok)
    IN  IF ~challenge.ok
        THEN [exit_code |-> 1, dir |-> dir, error |-> "Failed to load challenge"]
        ELSE IF ~sig.ok
        THEN [exit_code |-> 1, dir |-> dir, error |-> "Failed to parse function signature"]
        ELSE IF dir.exists
        THEN [exit_code |-> 1, dir |-> dir, error |-> "Directory already exists"]
        ELSE IF ~mkdir_ok
        THEN [exit_code |-> 1, dir |-> dir, error |-> "Failed to create directory"]
        ELSE IF ~scaffold.ok
        THEN [exit_code |-> 1, dir |-> dir,
              error |-> "Failed to generate scaffold: " \o scaffold.error]
        ELSE [exit_code |-> 0, dir |-> scaffold.dir, error |-> ""]

\* init_challenge, given the config, the challenge of the day (or the failure to
\* load it), the directory and whether each file-system call succeeds
init_challenge(language, config, challenge, dir, mkdir_ok, write_ok, chmod_ok) ==
    LET sig == parse_signature(challenge.function_signature)
        created == Dir(NoFile, NoFile)
        scaffold == generate_scaffold(challenge, language, config.difficulty, created,
                                      write_ok, chmod_ok)
    IN  IF ~challenge.ok
        THEN [exit_code |-> 1, dir |-> dir, error |-> "Failed to load challenge"]
        ELSE IF ~sig.ok
        THEN [exit_code |-> 1, dir |-> dir, error |-> "Failed to parse function signature"]
        ELSE IF dir.exists
        THEN [exit_code |-> 1, dir |-> dir, error |-> "Directory already exists"]
        ELSE IF ~mkdir_ok
        THEN [exit_code |-> 1, dir |-> dir, error |-> "Failed to create directory"]
        ELSE IF ~scaffold.ok
        THEN [exit_code |-> 1, dir |-> scaffold.dir,
              error |-> "Failed to generate scaffold: " \o scaffold.error]
        ELSE [exit_code |-> 0, dir |-> scaffold.dir, error |-> ""]

\* ./setup.sh, run by the user in the challenge's directory: it checks the
\* tools it needs and writes .codle.json from its here-document
run_setup(dir, tools_ok) ==
    IF ~(dir.exists /\ dir.setup_sh.present /\ dir.setup_sh.executable)
    THEN [exit_code |-> 1, dir |-> dir]
    ELSE IF ~tools_ok THEN [exit_code |-> 1, dir |-> dir]
    ELSE [exit_code |-> 0,
          dir |-> [dir EXCEPT !.codle_json = File(dir.setup_sh.metadata, FALSE)]]

-----------------------------------------------------------------------------
(* The signatures and notation texts the parser is given *)

Primitives == {I32, F64, Usize, Bool, String, Char}

\* the types with exactly d constructors (Vec, &mut) around a primitive
RECURSIVE TypesAt(_)
TypesAt(d) ==
    IF d = 0 THEN Primitives
    ELSE {Vec(t) : t \in TypesAt(d - 1)} \cup {MutRef(t) : t \in TypesAt(d - 1)}

TypesUpTo(d) == UNION {TypesAt(k) : k \in 0..d}

ReturnTypes(d) == {Void} \cup TypesUpTo(d)

\* the signatures of at most two parameters that spend at most MaxDepth
\* constructors over their parameter types and return type
Signatures0 == {FunctionSignature("f", <<>>, r) : r \in ReturnTypes(MaxDepth)}

Signatures1 ==
    UNION {{FunctionSignature("reverse_string", <<Param("s", t)>>, r) :
              t \in TypesAt(a), r \in ReturnTypes(MaxDepth - a)} : a \in 0..MaxDepth}

Signatures2 ==
    UNION {{FunctionSignature("two_sum", <<Param("nums", t), Param("target", u)>>, r) :
              t \in TypesAt(ab[1]), u \in TypesAt(ab[2]),
              r \in ReturnTypes(MaxDepth - ab[1] - ab[2])} :
           ab \in {x \in (0..MaxDepth) \X (0..MaxDepth) : x[1] + x[2] <= MaxDepth}}

Signatures == Signatures0 \cup Signatures1 \cup Signatures2

NoSignature == FunctionSignature("", <<>>, Void)

\* the header with the return type written after a colon
write_signature_colon(sig) ==
    LET params_str == [i \in 1..Len(sig.params) |->
                         sig.params[i].name \o ": " \o translate_type(sig.params[i].ty, "Rs")]
        ret_str == IF sig.return_type = Void THEN ""
                   ELSE ": " \o translate_type(sig.return_type, "Rs")
    IN  "fn " \o sig.name \o "(" \o join(params_str, ", ") \o ")" \o ret_str

\* the notation of a signature, as generate_rust writes the stub's header:
\* "fn name(p: T, ...)" and " -> R" unless the return type is Void
write_signature(sig) ==
    LET params_str == [i \in 1..Len(sig.params) |->
                         sig.params[i].name \o ": " \o translate_type(sig.params[i].ty, "Rs")]
        ret_str == IF sig.return_type = Void THEN ""
                   ELSE " -> " \o translate_type(sig.return_type, "Rs")
    IN  "fn " \o sig.name \o "(" \o join(params_str, ", ") \o ")" \o ret_str

\* valid notations written by hand, with the white space the grammar allows
ValidTexts ==
    {"fn f()", "fn f( )", "fn f(\t) -> bool", "  fn g(a:i32)->Vec<i32>  ",
     "fn h(a : &mut  Vec<char>)", "fn k( a: i32 ,b: String )", "fn m(a: Vec< f64 >) ->usize",
     "fn merge(nums1: &mut Vec<i32>, m: i32, nums2: &mut Vec<i32>, n: i32)"}

\* texts with one defect each, by the defect
UnknownTypeNames == {"int", "void", "()", "u8", "Vec", "I32", "&mut"}

UnclosedVecs == {"Vec<i32", "Vec<Vec<char>", "&mut Vec<bool"}

VoidSignatures == {sig \in Signatures0 \cup Signatures1 : sig.return_type = Void}

NoKeywordTexts ==
    {from(write_signature(sig), 4) : sig \in Signatures0 \cup Signatures1}
    \cup {"", "fnf()", "function f()", "Fn f()"}

NoOpenParenTexts ==
    {"fn " \o sig.name \o " -> " \o translate_type(sig.return_type, "Rs") :
        sig \in (Signatures0 \ VoidSignatures)}
    \cup {"fn two_sum", "fn f)"}

UnmatchedParenTexts ==
    {"fn " \o sig.name \o "(" \o sig.params[1].name \o ": "
        \o translate_type(sig.params[1].ty, "Rs") : sig \in Signatures1}
    \cup {"fn f(", "fn f((a: i32)", "fn f(a: i32 -> i32"}

MissingColonTexts ==
    {"fn " \o sig.name \o "(" \o sig.params[1].name \o " "
        \o translate_type(sig.params[1].ty, "Rs") \o ")" : sig \in Signatures1}
    \cup {"fn f(a: i32, b)", "fn f(x)", "fn f(a: i32, b bool) -> i32"}

UnknownTypeTexts ==
    {write_signature(sig) \o " -> " \o bad : sig \in VoidSignatures, bad \in UnknownTypeNames}
    \cup {"fn f(a: " \o bad \o ")" : bad \in UnknownTypeNames}
    \cup {"fn f(a: Vec<" \o bad \o ">, b: i32)" : bad \in UnknownTypeNames}
    \cup {"fn merge(a: Vec<i32, i32>, b: i32)"}

UnclosedVecTexts ==
    {write_signature(sig) \o " -> " \o bad : sig \in VoidSignatures, bad \in UnclosedVecs}
    \cup {"fn f(a: " \o bad \o ")" : bad \in UnclosedVecs}
    \cup {"fn f(a: " \o bad \o ", b: i32)" : bad \in UnclosedVecs}

\* texts whose part after ')' is not empty and not a '->' clause
TrailingTexts ==
    {write_signature(sig) \o " " \o translate_type(r, "Rs") :
        sig \in VoidSignatures, r \in Primitives}
    \cup {"fn f() : i32", "fn f(a: i32) - > i32", "fn f() {", "fn f()("}

\* texts whose parameter list has an empty segment between commas
EmptySegmentTexts ==
    {"fn f(a: i32,, b: bool)", "fn f(,)", "fn f(a: i32, ,b: bool) -> i32",
     "fn f(, a: i32)", "fn f(a: Vec<i32>,,)"}

DefectTexts(defect) ==
    CASE defect = "no_keyword" -> NoKeywordTexts
      [] defect = "no_open_paren" -> NoOpenParenTexts
      [] defect = "unmatched_paren" -> UnmatchedParenTexts
      [] defect = "missing_colon" -> MissingColonTexts
      [] defect = "unknown_type" -> UnknownTypeTexts
      [] defect = "unclosed_vec" -> UnclosedVecTexts
      [] defect = "trailing_text" -> TrailingTexts
      [] defect = "empty_segment" -> EmptySegmentTexts

ErrorDefects == {"no_keyword", "no_open_paren", "unmatched_paren", "missing_colon",
                 "unknown_type", "unclosed_vec"}

SilentDefects == {"trailing_text", "empty_segment"}

-----------------------------------------------------------------------------
(* The types and values the translator and the renderer are given *)

Types == ReturnTypes(MaxDepth)

Scalars ==
    {JNull, JBool(TRUE), JBool(FALSE), JInt(0), JInt(5), JInt(0 - 3),
     JFloat(50), JFloat(25), JString(""), JString("a"), JString("abc")}

ArrayElems == {JInt(1), JFloat(15), JString("c")}

Arrays == {JArray(items) : items \in SeqUpTo(ArrayElems, MaxItems)}

NestedArrays ==
    {JArray(items) : items \in SeqUpTo({JArray(<<>>), JArray(<<JInt(1), JInt(2)>>)}, MaxItems)}

Values == Scalars \cup Arrays \cup NestedArrays

-----------------------------------------------------------------------------
(* What test generation meets: signatures of both shapes and their test cases *)

TestParams ==
    {Param("n", I32), Param("nums", Vec(I32)),
     Param("out", MutRef(I32)), Param("buf", MutRef(Vec(Char)))}

TestParamLists ==
    {<<>>} \cup {<<p>> : p \in TestParams}
           \cup {pq \in TestParams \X TestParams : pq[1] # pq[2]}

TestSignatures ==
    {FunctionSignature("fill", params, r) :
        params \in TestParamLists, r \in {Void, I32, Vec(Char)}}

\* a value of the kind a parameter of the type ty is given
SampleValue(ty) ==
    CASE unwrap_mut_ref(ty).tag = "I32" -> JInt(5)
      [] unwrap_mut_ref(ty) = Vec(I32) -> JArray(<<JInt(2), JInt(7)>>)
      [] unwrap_mut_ref(ty) = Vec(Char) ->
            JArray(<<JString("a"), JString("b"), JString("c")>>)

\* input keyed by every parameter name, by none, or no object at all
TestInputs(sig) ==
    {JObject([name \in {sig.params[i].name : i \in 1..Len(sig.params)} |->
                SampleValue((CHOOSE p \in {sig.params[i] : i \in 1..Len(sig.params)} :
                               p.name = name).ty)]),
     JObject(<<>>),
     JNull}

TestExpected == {JInt(2), JArray(<<JString("c"), JString("b"), JString("a")>>)}

TestCases(sig) ==
    {TestCase(input, expected) : input \in TestInputs(sig), expected \in TestExpected}

-----------------------------------------------------------------------------
(* What the commands meet: the challenge of the day and the tool's output *)

ChallengeSignatures ==
    {"fn two_sum(nums: Vec<i32>, target: i32) -> Vec<usize>", "fn broken(x)"}

\* Result<Challenge, String> of load_daily_challenge
Challenges ==
    {[ok |-> FALSE, difficulty |-> 0, function_signature |-> ""]}
    \cup {[ok |-> TRUE, difficulty |-> ChallengeDifficulty, function_signature |-> text] :
            text \in ChallengeSignatures}

\* the targets the commands are run for: one per way of counting the total
CommandLanguages == {"Rs", "Kt"}

\* the outcomes of Command::output() in a command's run: the tool is not
\* launched, or it prints nothing, a summary of one passed test, a summary of
\* one failed test, or a line that says nothing of tests
ToolOutcome(is_launched, status, _stdout) ==
    [launched |-> is_launched, status |-> status, stdout |-> _stdout, stderr |-> <<>>]

ToolOutcomes(lang) ==
    IF lang \in {"Kt", "Java"}
    THEN {ToolOutcome(FALSE, 0, <<>>), ToolOutcome(TRUE, 0, <<>>),
          ToolOutcome(TRUE, 0, <<"1 tests completed, 0 failed">>),
          ToolOutcome(TRUE, 1, <<"1 tests completed, 1 failed">>),
          ToolOutcome(TRUE, 1, <<"BUILD FAILED">>)}
    ELSE {ToolOutcome(FALSE, 0, <<>>), ToolOutcome(TRUE, 0, <<>>),
          ToolOutcome(TRUE, 0, <<"test result: ok. 1 passed; 0 failed; 0 ignored">>),
          ToolOutcome(TRUE, 101, <<"test result: FAILED. 0 passed; 1 failed; 0 ignored">>),
          ToolOutcome(TRUE, 101, <<"error: could not compile">>)}

\* the outcomes of the file-system calls of init: which of them fails, if any
FsOutcomes == {"ok", "create_dir_all fails", "write fails", "set_permissions fails"}

\* the levels the user asks for
CommandLevels == {"Easy", "Hard"}

Option(S) == {[some |-> FALSE, tier |-> "Easy"]} \cup {[some |-> TRUE, tier |-> x] : x \in S}

-----------------------------------------------------------------------------
(* States in which a part of the program is not in use *)

IdleNormalizer ==
    /\ target = "Rs" /\ tool_launched = FALSE /\ tool_status = 0
    /\ tool_stdout = <<>> /\ tool_stderr = <<>>
    /\ returned = FALSE /\ run_result = Err("")
    /\ spawned = <<>> /\ tool_state = "none"

IdleSignature ==
    /\ sig_case = "" /\ sig_source = NoSignature /\ sig_text = ""
    /\ sig_parsed = FALSE /\ sig_result = ErrSig("")

IdleTests ==
    /\ gen_sig = NoSignature /\ gen_tests = <<>> /\ gen_lang = "Rs"
    /\ generated = FALSE /\ tests_code = <<>>

IdleTypes ==
    /\ arg_ty = Void /\ arg_value = JNull /\ arg_lang = "Rs"
    /\ applied = "" /\ translated = "" /\ rendered = ""
    /\ IdleTests

\* the runs of codle init that may be under way at once
Runs == {1, 2}

\* a run of init_challenge: its place in the code, its language argument, the
\* challenge it loaded and whether it has called generate_scaffold
InitRun(pc, language, challenge, generating) ==
    [pc |-> pc, language |-> language, challenge |-> challenge, generating |-> generating]

NoChallenge == [ok |-> FALSE, difficulty |-> 0, function_signature |-> ""]

NoRuns == [p \in Runs |-> InitRun("not started", "Rs", NoChallenge, FALSE)]

ScoreArgs(challenge_difficulty, tier, streak) ==
    [challenge_difficulty |-> challenge_difficulty, tier |-> tier, streak |-> streak]

IdleScore ==
    /\ score_args = ScoreArgs(0, "Easy", 0) /\ scored = FALSE /\ score = 0

IdleCommands ==
    /\ user_config = DefaultConfig /\ output_dir = NoDir /\ today = 0
    /\ command = "" /\ exit_code = 0
    /\ init_runs = NoRuns
    /\ init_error = ""
    /\ IdleScore

-----------------------------------------------------------------------------
(* run_tests on every transcript *)

InitNormalizer ==
    /\ target \in Language
    /\ tool_launched \in BOOLEAN
    /\ tool_status \in (IF tool_launched THEN ExitStatuses ELSE {0})
    /\ tool_stdout \in (IF tool_launched THEN Stdouts(target) ELSE {<<>>})
    /\ tool_stderr \in (IF tool_launched THEN Stderrs ELSE {<<>>})
    /\ returned = FALSE
    /\ run_result = Err("")
    /\ spawned = <<>> /\ tool_state = "none"
    /\ IdleSignature /\ IdleTypes /\ IdleCommands

\* Command::new(cmd).args(args).output(), from the start of the child process
\* to its exit: what it leaves in the process table
Spawned(lang, is_launched) ==
    /\ spawned' = IF is_launched THEN <<test_command(lang)>> ELSE <<>>
    /\ tool_state' = IF is_launched THEN "exited" ELSE "none"

RunTests ==
    /\ ~returned
    /\ returned' = TRUE
    /\ run_result' = run_tests(target, tool_launched, tool_status, tool_stdout, tool_stderr)
    /\ Spawned(target, tool_launched)
    /\ UNCHANGED <<target, tool_launched, tool_status, tool_stdout, tool_stderr>>
    /\ UNCHANGED <<sigVars, typeVars, cliVars>>

NextNormalizer == RunTests

SpecNormalizer == InitNormalizer /\ [][NextNormalizer]_vars

-----------------------------------------------------------------------------
(* run_tests on what the generated C and C++ harnesses print *)

\* the verdict line a test block of the harness prints
Verdicts == {"PASS", "FAIL", "FAIL (expected 5, got 3)"}

\* what the main() that generate_c_tests and generate_cpp_tests write prints
\* when its test blocks reach the given verdicts: a line for each, an empty
\* line, and passed/(passed + failed) tests passed
harness_output(verdicts) ==
    LET passed == Cardinality({i \in 1..Len(verdicts) : verdicts[i] = "PASS"})
    IN  [i \in 1..Len(verdicts) |-> "Test " \o to_string(i) \o ": " \o verdicts[i]]
        \o <<"", to_string(passed) \o "/" \o to_string(Len(verdicts)) \o " tests passed">>

InitHarness ==
    /\ target \in {"C", "Cpp"}
    /\ tool_launched = TRUE
    /\ tool_status \in ExitStatuses
    /\ tool_stdout \in {harness_output(verdicts) : verdicts \in SeqUpTo(Verdicts, MaxVerdicts)}
    /\ tool_stderr \in Stderrs
    /\ returned = FALSE
    /\ run_result = Err("")
    /\ spawned = <<>> /\ tool_state = "none"
    /\ IdleSignature /\ IdleTypes /\ IdleCommands

SpecHarness == InitHarness /\ [][NextNormalizer]_vars

-----------------------------------------------------------------------------
(* One call of run_tests, from the start of the tool to the summary *)

\* Command::new(cmd).args(args).output() starts the child process, or fails to
\* and run_tests returns the error
SpawnTool ==
    /\ ~returned /\ tool_state = "none" /\ spawned = <<>>
    /\ IF tool_launched
       THEN /\ spawned' = Append(spawned, test_command(target))
            /\ tool_state' = "running"
            /\ UNCHANGED <<returned, run_result>>
       ELSE /\ returned' = TRUE
            /\ run_result' = run_tests(target, FALSE, tool_status, tool_stdout, tool_stderr)
            /\ UNCHANGED procVars
    /\ UNCHANGED <<target, tool_launched, tool_status, tool_stdout, tool_stderr>>
    /\ UNCHANGED <<sigVars, typeVars, cliVars>>

\* the child process writes its last output and exits
ToolExits ==
    /\ tool_state = "running"
    /\ tool_state' = "exited"
    /\ UNCHANGED <<target, tool_launched, tool_status, tool_stdout, tool_stderr,
                   returned, run_result, spawned>>
    /\ UNCHANGED <<sigVars, typeVars, cliVars>>

\* output() returns the collected streams and run_tests parses them
ReturnSummary ==
    /\ ~returned /\ tool_state = "exited"
    /\ returned' = TRUE
    /\ run_result' = run_tests(target, TRUE, tool_status, tool_stdout, tool_stderr)
    /\ UNCHANGED <<target, tool_launched, tool_status, tool_stdout, tool_stderr>>
    /\ UNCHANGED procVars
    /\ UNCHANGED <<sigVars, typeVars, cliVars>>

NextRunTests == SpawnTool \/ ToolExits \/ ReturnSummary

SpecRunTests == InitNormalizer /\ [][NextRunTests]_vars

-----------------------------------------------------------------------------
(* parse_signature on every text *)

SignatureCases == {"valid"} \cup ErrorDefects \cup SilentDefects

InitSignature ==
    /\ sig_case \in SignatureCases
    /\ sig_source \in (IF sig_case = "valid" THEN Signatures \cup {NoSignature}
                       ELSE {NoSignature})
    /\ sig_text \in (IF sig_case # "valid" THEN DefectTexts(sig_case)
                     ELSE IF sig_source = NoSignature THEN ValidTexts
                     ELSE {write_signature(sig_source)})
    /\ sig_parsed = FALSE
    /\ sig_result = ErrSig("")
    /\ IdleNormalizer /\ IdleTypes /\ IdleCommands

ParseSignature ==
    /\ ~sig_parsed
    /\ sig_parsed' = TRUE
    /\ sig_result' = parse_signature(sig_text)
    /\ UNCHANGED <<sig_case, sig_source, sig_text>>
    /\ UNCHANGED <<normVars, typeVars, cliVars>>

NextSignature == ParseSignature

SpecSignature == InitSignature /\ [][NextSignature]_vars

-----------------------------------------------------------------------------
(* translate_type and render_value on every type, value and target *)

InitTypes ==
    /\ arg_ty \in Types
    /\ arg_value \in Values
    /\ arg_lang \in Language
    /\ applied = ""
    /\ translated = ""
    /\ rendered = ""
    /\ IdleTests
    /\ IdleNormalizer /\ IdleSignature /\ IdleCommands

TranslateType ==
    /\ applied = ""
    /\ applied' = "translate_type"
    /\ translated' = translate_type(arg_ty, arg_lang)
    /\ UNCHANGED <<arg_ty, arg_value, arg_lang, rendered>>
    /\ UNCHANGED genVars
    /\ UNCHANGED <<normVars, sigVars, cliVars>>

RenderValue ==
    /\ applied = ""
    /\ applied' = "render_value"
    /\ rendered' = render_value(arg_value, arg_ty, arg_lang)
    /\ UNCHANGED <<arg_ty, arg_value, arg_lang, translated>>
    /\ UNCHANGED genVars
    /\ UNCHANGED <<normVars, sigVars, cliVars>>

NextTypes == TranslateType \/ RenderValue

SpecTypes == InitTypes /\ [][NextTypes]_vars

-----------------------------------------------------------------------------
(* The generated test file of every target for a signature and its test cases *)

InitTests ==
    /\ gen_sig \in TestSignatures
    /\ gen_tests \in SeqUpTo(TestCases(gen_sig), MaxTests)
    /\ gen_lang \in Language
    /\ generated = FALSE
    /\ tests_code = <<>>
    /\ arg_ty = Void /\ arg_value = JNull /\ arg_lang = "Rs"
    /\ applied = "" /\ translated = "" /\ rendered = ""
    /\ IdleNormalizer /\ IdleSignature /\ IdleCommands

GenerateTests ==
    /\ ~generated
    /\ generated' = TRUE
    /\ tests_code' = generate_tests(gen_sig, gen_tests, gen_lang)
    /\ UNCHANGED <<gen_sig, gen_tests, gen_lang>>
    /\ UNCHANGED <<arg_ty, arg_value, arg_lang, applied, translated, rendered>>
    /\ UNCHANGED <<normVars, sigVars, cliVars>>

NextTests == GenerateTests

SpecTests == InitTests /\ [][NextTests]_vars

-----------------------------------------------------------------------------
(* calculate_boss_score on every difficulty, tier and streak *)

InitScore ==
    /\ score_args \in {ScoreArgs(d, tier, streak) :
                          d \in 0..MaxDifficulty, tier \in Difficulty, streak \in 0..MaxStreak}
    /\ scored = FALSE
    /\ score = 0
    /\ user_config = DefaultConfig /\ output_dir = NoDir /\ today = 0
    /\ command = "" /\ exit_code = 0
    /\ init_runs = NoRuns /\ init_error = ""
    /\ IdleNormalizer /\ IdleSignature /\ IdleTypes

CalculateBossScore ==
    /\ ~scored
    /\ scored' = TRUE
    /\ score' = calculate_boss_score(score_args.challenge_difficulty, score_args.tier,
                                      score_args.streak)
    /\ UNCHANGED <<score_args, user_config, output_dir, today, command, exit_code,
                   init_runs, init_error>>
    /\ UNCHANGED <<normVars, sigVars, typeVars>>

NextScore == CalculateBossScore

SpecScore == InitScore /\ [][NextScore]_vars

-----------------------------------------------------------------------------
(* The commands of the codle binary, run one after another *)

Init == IdleNormalizer /\ IdleSignature /\ IdleTypes /\ IdleCommands

\* the command ran no tests
NoRun ==
    /\ target' = "Rs" /\ tool_launched' = FALSE /\ tool_status' = 0
    /\ tool_stdout' = <<>> /\ tool_stderr' = <<>>
    /\ returned' = FALSE /\ run_result' = Err("")
    /\ spawned' = <<>> /\ tool_state' = "none"

\* the command ran the tests of lang: the outcome of Command::output() and
\* what run_tests returned
Ran(lang, tool, result) ==
    /\ target' = lang /\ tool_launched' = tool.launched /\ tool_status' = tool.status
    /\ tool_stdout' = tool.stdout /\ tool_stderr' = tool.stderr
    /\ returned' = TRUE
    /\ run_result' = result
    /\ Spawned(lang, tool.launched)

\* codle init <language>
InitChallenge ==
    \E language \in CommandLanguages, challenge \in Challenges, fs \in FsOutcomes :
        \E done \in {init_challenge(language, user_config, challenge, output_dir,
                                    fs # "create_dir_all fails", fs # "write fails",
                                    fs # "set_permissions fails")} :
            /\ output_dir.exists => fs = "ok"
            /\ command' = "init"
            /\ exit_code' = done.exit_code
            /\ output_dir' = done.dir
            /\ init_error' = done.error
            /\ NoRun
            /\ UNCHANGED <<user_config, today, sigVars, typeVars, init_runs, scoreVars>>

\* ./setup.sh in the challenge's directory
RunSetup ==
    \E tools_ok \in BOOLEAN :
        \E done \in {run_setup(output_dir, tools_ok)} :
            /\ command' = "setup"
            /\ exit_code' = done.exit_code
            /\ output_dir' = done.dir
            /\ init_error' = ""
            /\ NoRun
            /\ UNCHANGED <<user_config, today, sigVars, typeVars, init_runs, scoreVars>>

\* codle test
TestSolution ==
    \E lang \in {project_load(output_dir).metadata.language} :
        \E tool \in ToolOutcomes(lang) :
            \E result \in {run_tests(lang, tool.launched, tool.status,
                                     tool.stdout, tool.stderr)} :
                \E done \in {test_solution(output_dir, result)} :
                    /\ command' = "test"
                    /\ exit_code' = done.exit_code
                    /\ IF done.ran_tests THEN Ran(lang, tool, result) ELSE NoRun
                    /\ init_error' = ""
                    /\ UNCHANGED <<user_config, output_dir, today, sigVars, typeVars, init_runs, scoreVars>>

\* codle submit
SubmitSolution ==
    \E lang \in {project_load(output_dir).metadata.language} :
        \E tool \in ToolOutcomes(lang), save_ok \in BOOLEAN :
            \E result \in {run_tests(lang, tool.launched, tool.status,
                                     tool.stdout, tool.stderr)} :
                \E done \in {submit_solution(output_dir, user_config, today,
                                             result, save_ok)} :
                    /\ command' = "submit"
                    /\ exit_code' = done.exit_code
                    /\ user_config' = done.user_config
                    /\ IF done.ran_tests THEN Ran(lang, tool, result) ELSE NoRun
                    /\ init_error' = ""
                    /\ UNCHANGED <<output_dir, today, sigVars, typeVars, init_runs, scoreVars>>

\* codle difficulty [level]
HandleDifficulty ==
    \E level \in Option(CommandLevels), save_ok \in BOOLEAN :
        \E done \in {handle_difficulty(user_config, level, save_ok)} :
            /\ command' = "difficulty"
            /\ exit_code' = done.exit_code
            /\ user_config' = done.user_config
            /\ NoRun
            /\ init_error' = ""
            /\ UNCHANGED <<output_dir, today, sigVars, typeVars, init_runs, scoreVars>>

\* the user removes the challenge's directory
RemoveDir ==
    /\ output_dir.exists
    /\ output_dir' = NoDir
    /\ UNCHANGED <<user_config, today, command, exit_code, normVars, sigVars, typeVars, init_runs, init_error, scoreVars>>

\* midnight passes
NextDay ==
    /\ today < MaxDay
    /\ today' = today + 1
    /\ UNCHANGED <<user_config, output_dir, command, exit_code, normVars, sigVars, typeVars, init_runs, init_error, scoreVars>>

\* midnight passes, in a run of days on which the user submits
DayPasses ==
    /\ today < MaxDate
    /\ today' = today + 1
    /\ UNCHANGED <<user_config, output_dir, command, exit_code, normVars, sigVars, typeVars, init_runs, init_error, scoreVars>>

Next ==
    \/ InitChallenge
    \/ RunSetup
    \/ TestSolution
    \/ SubmitSolution
    \/ HandleDifficulty
    \/ RemoveDir
    \/ NextDay

Spec == Init /\ [][Next]_vars

-----------------------------------------------------------------------------
(* Submits and difficulty commands over a run of days, in a directory that
   init and setup.sh have prepared *)

\* the directory after codle init rs at tier Easy and ./setup.sh
PreparedDir ==
    Dir(File(ProjectMetadata("Rs", "Easy", ChallengeDifficulty), TRUE),
        File(ProjectMetadata("Rs", "Easy", ChallengeDifficulty), FALSE))

\* the configs the run of days starts from: a new user's, and that of a user
\* who completed a challenge the day before the run, after a longer streak
InitialConfigs ==
    {DefaultConfig,
     [difficulty |-> "Medium", boss_score |-> 9, challenges_completed |-> 3,
      current_streak |-> 1, longest_streak |-> 2,
      last_completed_date |-> SomeDate(0 - 1)]}

InitStreak ==
    /\ user_config \in InitialConfigs
    /\ output_dir = PreparedDir
    /\ today = 0
    /\ command = "" /\ exit_code = 0
    /\ init_runs = NoRuns /\ init_error = ""
    /\ IdleScore
    /\ IdleNormalizer /\ IdleSignature /\ IdleTypes

NextStreak ==
    \/ SubmitSolution
    \/ HandleDifficulty
    \/ DayPasses

SpecStreak == InitStreak /\ [][NextStreak]_vars

-----------------------------------------------------------------------------
(* Properties of the normalizer *)

\* C1: for every target and every transcript, the summary run_tests returns
\* has total = passed + failed
C1_TotalIsPassedPlusFailed ==
    (returned /\ run_result.ok) =>
        run_result.total = run_result.passed + run_result.failed

\* a transcript has no signal for a target when no line of it is a summary
\* line of the target's tool and no line carries a per-test marker of it
NoSignal(lang, lines) ==
    \A i \in 1..Len(lines) :
        CASE lang = "Rs" ->
                /\ ~starts_with(lines[i], "test result:")
                /\ ~contains(lines[i], " ... ok")
                /\ ~contains(lines[i], " ... FAILED")
          [] lang = "Py" ->
                /\ ~contains(lines[i], "passed") /\ ~contains(lines[i], "failed")
                /\ ~contains(lines[i], "PASSED") /\ ~contains(lines[i], "FAILED")
          [] lang \in {"Kt", "Java"} ->
                /\ ~contains(lines[i], "tests completed")
                /\ ~(contains(lines[i], "()") /\ ends_with(trim(lines[i]), "PASSED"))
                /\ ~(contains(lines[i], "()") /\ ends_with(trim(lines[i]), "FAILED"))
          [] lang \in {"C", "Cpp"} ->
                /\ ~contains(lines[i], "tests passed")
                /\ ~contains(lines[i], ": PASS")
                /\ ~contains(lines[i], ": FAIL")

\* C2: a transcript without a summary line and without a per-test marker is
\* normalized to Ok with passed = 0, failed = 0 and total = 0, and no
\* transcript of a launched tool makes the parsers return an error
C2_NoSignalIsZero ==
    (returned /\ tool_launched) =>
        /\ run_result.ok
        /\ NoSignal(target, tool_stdout \o tool_stderr) =>
              /\ run_result.passed = 0
              /\ run_result.failed = 0
              /\ run_result.total = 0

\* a transcript of lines that say nothing of tests has been normalized to zeros
C2_Witness ==
    /\ returned /\ tool_launched
    /\ Len(tool_stdout) = MaxLines /\ tool_stderr # <<>>
    /\ NoSignal(target, tool_stdout \o tool_stderr)
    /\ run_result = Ok(0, 0, 0, combined_lines(tool_stdout, tool_stderr))

\* C4: run_tests returns an error exactly when the tool cannot be launched,
\* and the error names the launch failure; a launched tool gives an Ok
\* summary whatever its exit status and its failed tests
C4_ErrOnlyWhenNotLaunched ==
    returned =>
        /\ run_result.ok <=> tool_launched
        /\ ~run_result.ok => starts_with(run_result.err, "Failed to run ")

\* a tool that exited with a failure status and reported failed tests has
\* been given an Ok summary
C4_Witness ==
    /\ returned /\ tool_launched /\ tool_status # 0
    /\ run_result.ok /\ run_result.failed > 0

-----------------------------------------------------------------------------
(* Properties of the commands *)

\* C3: when the summary of a test or submit command has total = 0, the command
\* ends with exit code 1, and the step leaves the user's score, completion
\* count, streak and last-completed date as they were
C3_ZeroTotalIsUnverified ==
    [][(/\ command' \in {"test", "submit"}
        /\ returned' /\ run_result'.ok /\ run_result'.total = 0)
       => (/\ exit_code' = 1
           /\ user_config'.boss_score = user_config.boss_score
           /\ user_config'.challenges_completed = user_config.challenges_completed
           /\ user_config'.current_streak = user_config.current_streak
           /\ user_config'.last_completed_date = user_config.last_completed_date)]_vars

\* a submit on the day after a completed challenge has met a summary with
\* total = 0 and has failed, the completion of the day before still recorded
C3_Witness ==
    /\ command = "submit" /\ returned /\ run_result.ok /\ run_result.total = 0
    /\ exit_code = 1
    /\ user_config.challenges_completed = 1
    /\ user_config.last_completed_date = SomeDate(today - 1)

-----------------------------------------------------------------------------
(* Properties of the signature parser *)

\* the message, or its part before the offending fragment, of each condition
MessageOf(defect) ==
    CASE defect = "no_keyword" -> "Signature must start with 'fn '"
      [] defect = "no_open_paren" -> "Missing opening parenthesis"
      [] defect = "unmatched_paren" -> "Unmatched parenthesis"
      [] defect = "missing_colon" -> "Missing ':' in parameter: '"
      [] defect = "unknown_type" -> "Unknown type: '"
      [] defect = "unclosed_vec" -> "Unclosed Vec<> in type: '"

C6_MalformedIsAnError ==
    (sig_parsed /\ sig_case \in SilentDefects) => ~sig_result.ok

\* the text between the parentheses of a valid text
EnclosedText(text) == SubSeq(text, find(text, "(") + 1, find(text, ")") - 1)

\* C7: a valid text is parsed, its return type is Void exactly when the text
\* has no '->' clause, and its parameter list is empty exactly when the
\* parentheses enclose white space only
C7_VoidAndEmptyParams ==
    (sig_parsed /\ sig_case = "valid") =>
        /\ sig_result.ok
        /\ sig_result.sig.return_type = Void <=> ~contains(sig_text, "->")
        /\ sig_result.sig.params = <<>> <=> trim(EnclosedText(sig_text)) = ""

\* a text written by hand, with white space between its parentheses and a
\* return clause, has been parsed
C7_Witness ==
    /\ sig_parsed /\ sig_case = "valid" /\ sig_source = NoSignature
    /\ EnclosedText(sig_text) # ""
    /\ sig_result.ok
    /\ sig_result.sig.params = <<>>
    /\ sig_result.sig.return_type # Void

\* C8: the text written from a signature whose return type is not Void is
\* parsed to a signature of the same name, as many parameters, the same
\* parameter types in the same order and the same return type
C8_RoundTrip ==
    (sig_parsed /\ sig_case = "valid" /\ sig_source # NoSignature
        /\ sig_source.return_type # Void) =>
        /\ sig_result.ok
        /\ sig_result.sig.name = sig_source.name
        /\ Len(sig_result.sig.params) = Len(sig_source.params)
        /\ \A i \in 1..Len(sig_source.params) :
              sig_result.sig.params[i].ty = sig_source.params[i].ty
        /\ sig_result.sig.return_type = sig_source.return_type

\* the text of a signature of two parameters, with a reference to a list
\* among its types, has been parsed
C8_Witness ==
    /\ sig_parsed /\ sig_case = "valid"
    /\ Len(sig_source.params) = 2
    /\ sig_source.params[1].ty = MutRef(Vec(Char))
    /\ sig_source.return_type # Void
    /\ sig_result = OkSig(sig_source)

-----------------------------------------------------------------------------
(* Properties of the type translator and the value renderer *)

\* C9: translate_type has a result for every type and target, and the result
\* is not the empty string unless the type is Void
C9_TranslateNonEmpty ==
    (applied = "translate_type" /\ arg_ty # Void) => translated # ""

\* a reference, which Python erases, has been translated for Python
C9_Witness ==
    /\ applied = "translate_type" /\ arg_lang = "Py"
    /\ arg_ty = MutRef(Vec(I32))
    /\ translated = "list[int]"

\* the character literal of a target: Python has one-character strings
CharLiteral(lang, c) ==
    IF lang = "Py" THEN "\"" \o c \o "\"" ELSE "'" \o c \o "'"

\* C10: a string rendered against Char is the target's character literal of
\* the string's first character, and of '?' when the string is empty
C10_CharIsFirstChar ==
    (applied = "render_value" /\ arg_ty = Char /\ arg_value.kind = "string") =>
        rendered = CharLiteral(arg_lang, IF arg_value.s = "" THEN "?"
                                         ELSE char_at(arg_value.s, 1))

\* the renderings of a list's elements with ", " between them
RECURSIVE CommaSeparated(_)
CommaSeparated(renderings) ==
    IF renderings = <<>> THEN ""
    ELSE IF Len(renderings) = 1 THEN Head(renderings)
    ELSE Head(renderings) \o ", " \o CommaSeparated(Tail(renderings))

\* the collection literal of a target around the renderings of its elements
ListLiteral(lang, elem_ty, renderings) ==
    CASE lang = "Rs" -> "vec![" \o CommaSeparated(renderings) \o "]"
      [] lang = "Py" -> "[" \o CommaSeparated(renderings) \o "]"
      [] lang = "Kt" -> "mutableListOf(" \o CommaSeparated(renderings) \o ")"
      [] lang = "Java" -> "new " \o translate_type(elem_ty, "Java") \o "[] {"
                            \o CommaSeparated(renderings) \o "}"
      [] lang \in {"C", "Cpp"} -> "{" \o CommaSeparated(renderings) \o "}"

\* C11: a list of n elements rendered against Vec(T) is the target's
\* collection literal around the n renderings of its elements against T, in
\* the order of the list; a value that is no list is rendered as the empty
\* list is, as the literal around nothing
C11_ListRendering ==
    (applied = "render_value" /\ arg_ty.tag = "Vec") =>
        IF arg_value.kind = "array"
        THEN rendered = ListLiteral(arg_lang, arg_ty.inner,
                            [i \in 1..Len(arg_value.items) |->
                                render_value(arg_value.items[i], arg_ty.inner, arg_lang)])
        ELSE rendered = ListLiteral(arg_lang, arg_ty.inner, <<>>)

\* a list of as many elements as can be has been rendered for Java
C11_Witness ==
    /\ applied = "render_value" /\ arg_lang = "Java" /\ arg_ty = Vec(F64)
    /\ arg_value.kind = "array" /\ Len(arg_value.items) = MaxItems
    /\ \A i \in 1..MaxItems : arg_value.items[i] = JFloat(15)
    /\ starts_with(rendered, "new double[] {1.5")

\* the digits after the decimal point of a text
FractionDigits(text) == Len(text) - find(text, ".")

\* C12: against F64, an integer is rendered as the float of the same value
\* is, a number without a fraction has one digit after the decimal point, and
\* every rendering has a decimal point
C12_FloatRendering ==
    (applied = "render_value" /\ arg_ty = F64) =>
        /\ contains(rendered, ".")
        /\ arg_value.kind = "int" =>
              /\ rendered = render_value(JFloat(10 * arg_value.n), F64, arg_lang)
              /\ FractionDigits(rendered) = 1
        /\ (arg_value.kind = "float" /\ arg_value.tenths % 10 = 0) =>
              FractionDigits(rendered) = 1

\* the integer 5 has been rendered against F64 as 5.0
C12_Witness ==
    /\ applied = "render_value" /\ arg_ty = F64 /\ arg_lang = "C"
    /\ arg_value = JInt(5)
    /\ rendered = "5.0"

\* C20: a value rendered against MutRef(T) is rendered as it is against T
C20_MutRefRendersAsInner ==
    (applied = "render_value" /\ arg_ty.tag = "MutRef") =>
        rendered = render_value(arg_value, arg_ty.inner, arg_lang)

\* a list has been rendered for C against a reference to a list
C20_Witness ==
    /\ applied = "render_value" /\ arg_lang = "C"
    /\ arg_ty = MutRef(Vec(Char))
    /\ arg_value = JArray(<<JString("c"), JString("c")>>)
    /\ rendered = "{'c', 'c'}"

-----------------------------------------------------------------------------
(* The summary line and the per-test markers *)

TestCounts(passed, failed) == [passed |-> passed, failed |-> failed]

\* the counts a line reports when it is a summary line of the target's tool
SummaryCounts(lang, line) ==
    CASE lang = "Rs" ->
            {TestCounts(p, f) : p \in {x \in Counts : \E y \in Counts : line = RustSummary(x, y)},
                                f \in {y \in Counts : \E x \in Counts : line = RustSummary(x, y)}}
      [] lang = "Py" ->
            {TestCounts(p, 0) : p \in {x \in Counts : line = PytestPassedSummary(x)}}
            \cup {c \in {TestCounts(x, y) : x \in Counts, y \in Counts} :
                    line = PytestSummary(c.passed, c.failed)}
      [] lang \in {"Kt", "Java"} ->
            {c \in {TestCounts(x, y) : x \in Counts, y \in Counts} :
                line = GradleSummary(c.passed + c.failed, c.failed)}
      [] lang \in {"C", "Cpp"} ->
            {c \in {TestCounts(x, y) : x \in Counts, y \in Counts} :
                line = CSummary(c.passed, c.passed + c.failed)}

\* the lines of a transcript that are summary lines
SummaryLinesOf(lang, lines) == {i \in 1..Len(lines) : SummaryCounts(lang, lines[i]) # {}}

\* C17: when the transcript has one summary line, passed and failed are the
\* counts of that line, whatever per-test marker lines stand beside it
C17_SummaryBeforeMarkers ==
    (returned /\ tool_launched /\ Cardinality(SummaryLinesOf(target, tool_stdout)) = 1) =>
        \A i \in SummaryLinesOf(target, tool_stdout) :
            \A c \in SummaryCounts(target, tool_stdout[i]) :
                run_result.passed = c.passed /\ run_result.failed = c.failed

-----------------------------------------------------------------------------
(* The parameters of a signature *)

\* C19: the text written from a signature of n parameters is parsed to n
\* parameters in the order written, each with the name and the type it was
\* written with, as are the four parameters of the text of the unit test
\* test_merge; a comma inside Vec<...> does not end a parameter: the text
\* between the angle brackets reaches parse_type whole
C19_ParametersInOrder ==
    /\ (sig_parsed /\ sig_case = "valid" /\ sig_source # NoSignature) =>
          /\ sig_result.ok
          /\ Len(sig_result.sig.params) = Len(sig_source.params)
          /\ \A i \in 1..Len(sig_source.params) :
                /\ sig_result.sig.params[i].name = sig_source.params[i].name
                /\ sig_result.sig.params[i].ty = sig_source.params[i].ty
    /\ (sig_parsed /\ sig_text = "fn merge(nums1: &mut Vec<i32>, m: i32, nums2: &mut Vec<i32>, n: i32)") =>
          sig_result = OkSig(FunctionSignature("merge",
                          <<Param("nums1", MutRef(Vec(I32))), Param("m", I32),
                            Param("nums2", MutRef(Vec(I32))), Param("n", I32)>>, Void))
    /\ (sig_parsed /\ sig_text = "fn merge(a: Vec<i32, i32>, b: i32)") =>
          sig_result = ErrSig("Unknown type: 'i32, i32'")

\* a text of two parameters, the first a list of lists, has been parsed
C19_Witness ==
    /\ sig_parsed /\ sig_case = "valid"
    /\ Len(sig_source.params) = 2
    /\ sig_source.params[1].ty = Vec(Vec(I32))
    /\ sig_result.ok
    /\ sig_result.sig.params = sig_source.params

-----------------------------------------------------------------------------
(* The project metadata *)

\* the bonus of each tier
TierBonus(tier) ==
    CASE tier = "Easy" -> 0 [] tier = "Medium" -> 1 [] tier = "Hard" -> 2 [] tier = "Extreme" -> 3

\* the points of a completion, from the metadata and the streak reached
PointsOf(metadata, streak) ==
    metadata.challenge_difficulty + TierBonus(metadata.difficulty)
        + (IF streak < 5 THEN streak ELSE 5)

\* what a command leaves behind, the directory apart
Outcome == <<command, exit_code, user_config, normVars>>

\* C16: a step of a test, submit or difficulty command leaves the directory,
\* and the metadata in it, as it was; and a step that records a completion
\* adds to the score the points of the tier and the challenge difficulty the
\* metadata records, whatever tier the user's config has by then
C16_MetadataIsFrozen ==
    [][/\ (command' \in {"test", "submit", "difficulty"} /\ Outcome' # Outcome)
            => output_dir' = output_dir
       /\ (user_config'.challenges_completed # user_config.challenges_completed)
            => user_config'.boss_score - user_config.boss_score
                 = PointsOf(output_dir.codle_json.metadata, user_config'.current_streak)]_vars

\* a challenge initialized at tier Easy has been completed by a user whose
\* tier is Hard by then, and has scored as Easy
C16_Witness ==
    /\ command = "submit" /\ exit_code = 0 /\ returned
    /\ user_config.challenges_completed = 1
    /\ user_config.difficulty = "Hard"
    /\ output_dir.codle_json.present
    /\ output_dir.codle_json.metadata.difficulty = "Easy"
    /\ user_config.boss_score = ChallengeDifficulty + 1

-----------------------------------------------------------------------------
(* Two runs of codle init for the same output path, step by step *)

InitRace ==
    /\ IdleNormalizer /\ IdleSignature /\ IdleTypes
    /\ user_config = DefaultConfig /\ output_dir = NoDir /\ today = 0
    /\ command = "" /\ exit_code = 0 /\ init_error = ""
    /\ IdleScore
    /\ init_runs \in [Runs -> {InitRun("start", language, NoChallenge, FALSE) :
                                language \in CommandLanguages}]

\* the run p moves to the place pc
Goto(p, pc) == init_runs' = [init_runs EXCEPT ![p].pc = pc]

\* load_daily_challenge and parse_signature: a failure of either ends the run
LoadChallenge(p) ==
    /\ init_runs[p].pc = "start"
    /\ \E challenge \in Challenges :
          \E sig \in {parse_signature(challenge.function_signature)} :
              init_runs' = [init_runs EXCEPT
                              ![p].challenge = challenge,
                              ![p].pc = IF challenge.ok /\ sig.ok THEN "loaded" ELSE "exit 1"]
    /\ UNCHANGED <<user_config, output_dir, today, command, exit_code, init_error, scoreVars>>
    /\ UNCHANGED <<normVars, sigVars, typeVars>>

\* if output_dir.exists() { ...; exit(1) }
CheckExists(p) ==
    /\ init_runs[p].pc = "loaded"
    /\ Goto(p, IF output_dir.exists THEN "exit 1" ELSE "absent")
    /\ UNCHANGED <<user_config, output_dir, today, command, exit_code, init_error, scoreVars>>
    /\ UNCHANGED <<normVars, sigVars, typeVars>>

\* create_dir_all(&output_dir), which succeeds on a directory that exists
CreateDir(p) ==
    /\ init_runs[p].pc = "absent"
    /\ \E mkdir_ok \in BOOLEAN :
          /\ Goto(p, IF mkdir_ok THEN "created" ELSE "exit 1")
          /\ output_dir' = IF mkdir_ok /\ ~output_dir.exists THEN Dir(NoFile, NoFile)
                           ELSE output_dir
    /\ UNCHANGED <<user_config, today, command, exit_code, init_error, scoreVars>>
    /\ UNCHANGED <<normVars, sigVars, typeVars>>

\* generate_scaffold(&challenge, &sig, language, user_config.difficulty, &output_dir)
GenerateScaffold(p) ==
    /\ init_runs[p].pc = "created"
    /\ \E write_ok \in BOOLEAN, chmod_ok \in BOOLEAN :
          \E scaffold \in {generate_scaffold(init_runs[p].challenge, init_runs[p].language,
                                             user_config.difficulty, output_dir,
                                             write_ok, chmod_ok)} :
              /\ init_runs' = [init_runs EXCEPT
                                 ![p].generating = TRUE,
                                 ![p].pc = IF scaffold.ok THEN "exit 0" ELSE "exit 1"]
              /\ output_dir' = scaffold.dir
    /\ UNCHANGED <<user_config, today, command, exit_code, init_error, scoreVars>>
    /\ UNCHANGED <<normVars, sigVars, typeVars>>

NextInitRace ==
    \E p \in Runs :
        \/ LoadChallenge(p)
        \/ CheckExists(p)
        \/ CreateDir(p)
        \/ GenerateScaffold(p)

SpecInitRace == InitRace /\ [][NextInitRace]_vars

\* C15: of two runs of init for the same output path, at most one calls
\* generate_scaffold and writes into the directory
C15_AtMostOneGenerates ==
    Cardinality({p \in Runs : init_runs[p].generating}) <= 1

-----------------------------------------------------------------------------
(* The generated tests: which assertion path, what each test case gets *)

\* the signature has the shape "void with output parameter"
VoidWithOutput(sig) ==
    sig.return_type.tag = "Void"
    /\ \E i \in 1..Len(sig.params) : sig.params[i].ty.tag = "MutRef"

\* the line calls the function under test
IsInvocation(line) ==
    starts_with(line, "    ") /\ contains(line, gen_sig.name \o "(")

\* the line binds the call's value to result: the return-value path
IsResultBinding(line) == IsInvocation(line) /\ contains(line, "result = ")

\* the line is a bare call statement: the output-parameter path
IsBareCall(line) == IsInvocation(line) /\ ~contains(line, "result")

\* the line is the target's equality assertion (for C and C++, the comparison's verdict)
IsAssertion(line) ==
    CASE gen_lang = "Rs" -> starts_with(trim(line), "assert_eq!(")
      [] gen_lang = "Py" -> starts_with(trim(line), "assert ")
      [] gen_lang \in {"Kt", "Java"} ->
            starts_with(trim(line), "assertEquals(")
            \/ starts_with(trim(line), "assertArrayEquals(")
      [] gen_lang \in {"C", "Cpp"} -> contains(line, ": PASS")

\* the line declares the input called name
IsDeclaration(line, name) ==
    contains(line, " " \o name \o " = ") \/ contains(line, " " \o name \o "_arr[] = ")

InvocationLines == {i \in DOMAIN tests_code : IsInvocation(tests_code[i])}

ResultBindingLines == {i \in DOMAIN tests_code : IsResultBinding(tests_code[i])}

BareCallLines == {i \in DOMAIN tests_code : IsBareCall(tests_code[i])}

AssertionLines == {i \in DOMAIN tests_code : IsAssertion(tests_code[i])}

\* the test case's input is keyed by exactly the signature's parameter names
KeyedByParameters(test) ==
    /\ test.input.kind = "object"
    /\ DOMAIN test.input.fields = {gen_sig.params[i].name : i \in 1..Len(gen_sig.params)}

\* C13: for every target and signature, the generated tests take the
\* output-parameter path exactly when the return type is Void and some
\* parameter is a MutRef, the return-value path otherwise, never both or neither
C13_PathBySignatureShape ==
    (generated /\ \E i \in 1..Len(gen_tests) : gen_tests[i].input.kind = "object") =>
        /\ BareCallLines # {} <=> VoidWithOutput(gen_sig)
        /\ ResultBindingLines # {} <=> ~VoidWithOutput(gen_sig)

C13_Witness ==
    /\ generated
    /\ \E i \in 1..Len(gen_tests) : KeyedByParameters(gen_tests[i])
    /\ Len(gen_sig.params) = 2
    /\ gen_sig.params[1].ty.tag # "MutRef"
    /\ VoidWithOutput(gen_sig)
    /\ BareCallLines # {}
    /\ ResultBindingLines = {}

\* C14: for every target, signature and test case keyed by the parameters, the
\* file declares each input, calls the function once and asserts once
C14_EveryTestCaseAsserts ==
    (generated /\ \A i \in 1..Len(gen_tests) : KeyedByParameters(gen_tests[i])) =>
        /\ \A k \in 1..Len(gen_sig.params) :
              Cardinality({i \in DOMAIN tests_code :
                             IsDeclaration(tests_code[i], gen_sig.params[k].name)})
                = Len(gen_tests)
        /\ Cardinality(InvocationLines) = Len(gen_tests)
        /\ Cardinality(AssertionLines) = Len(gen_tests)

\* the first MutRef parameter in signature order
FirstMutRef(sig) ==
    sig.params[CHOOSE i \in 1..Len(sig.params) :
                  /\ sig.params[i].ty.tag = "MutRef"
                  /\ \A k \in 1..(i - 1) : sig.params[k].ty.tag # "MutRef"]

\* the expected value is of the kind the type takes
WellTyped(expected, ty) ==
    IF ty.tag = "Vec" THEN expected.kind = "array" ELSE expected.kind = "int"

\* the texts the post-call comparison of the variable with the expected value
\* must show: the whole rendering, or in C each element's rendering
ExpectedTexts(expected, inner) ==
    IF gen_lang = "C" /\ inner.tag = "Vec"
    THEN {"!= " \o render_value(expected.items[j], inner.inner, "C") \o ")" :
             j \in 1..Len(expected.items)}
    ELSE {render_value(expected, inner, gen_lang)}

\* C18: on the output-parameter path, for every target, the first MutRef
\* parameter is compared after the call with the expected value rendered
\* against its inner type
C18_AssertsFirstMutRef ==
    (generated /\ VoidWithOutput(gen_sig)) =>
        \A t \in 1..Len(gen_tests) :
            (/\ KeyedByParameters(gen_tests[t])
             /\ WellTyped(gen_tests[t].expected, FirstMutRef(gen_sig).ty.inner)) =>
                /\ AssertionLines # {}
                /\ \A text \in ExpectedTexts(gen_tests[t].expected,
                                             FirstMutRef(gen_sig).ty.inner) :
                      \E c \in BareCallLines :
                          \E a \in (c + 1)..Len(tests_code) :
                              /\ contains(tests_code[a], FirstMutRef(gen_sig).name)
                              /\ contains(tests_code[a], text)

-----------------------------------------------------------------------------
(* Rendering against Void *)

\* C21: for every target and every value, render_value against Void returns
\* the empty string
C21_VoidRendersEmpty ==
    (applied = "render_value" /\ arg_ty = Void) => rendered = ""

-----------------------------------------------------------------------------
(* A failed generation leaves what it wrote *)

\* the step is a run of codle init (removing the directory and the passing of
\* midnight leave command as it was)
InitStep ==
    /\ command' = "init"
    /\ today' = today
    /\ output_dir.exists => output_dir'.exists

\* C22: when generate_scaffold fails, init exits with 1 and the directory it
\* created (with a setup.sh already written) stays; while the directory is
\* there, an init that gets as far as the directory is refused with the
\* directory-exists error and changes nothing
C22_NoRollback ==
    [][InitStep =>
          /\ starts_with(init_error', "Failed to generate scaffold") =>
                /\ exit_code' = 1
                /\ ~output_dir.exists /\ output_dir'.exists
                /\ ends_with(init_error', "Failed to set permissions")
                      => output_dir'.setup_sh.present
          /\ (/\ output_dir.exists
              /\ init_error' \notin {"Failed to load challenge",
                                     "Failed to parse function signature"}) =>
                /\ init_error' = "Directory already exists"
                /\ exit_code' = 1
                /\ output_dir' = output_dir]_vars

C22_Witness ==
    /\ command = "init"
    /\ init_error = "Directory already exists"
    /\ exit_code = 1
    /\ output_dir.exists
    /\ output_dir.setup_sh.present
    /\ ~output_dir.setup_sh.executable

-----------------------------------------------------------------------------
(* One process per call of run_tests *)

\* the (program, args) pair of each target
FixedCommand(lang) ==
    IF lang = "Rs" THEN <<"cargo", <<"test">>>>
    ELSE IF lang = "Py" THEN <<"pytest", <<"test_solution.py", "-v">>>>
    ELSE IF lang \in {"Kt", "Java"} THEN <<"./gradlew", <<"test">>>>
    ELSE <<"make", <<"test">>>>

\* what the parser of the target's family makes of the two streams
FamilySummary(lang, out, err) ==
    IF lang = "Rs" THEN parse_rust_output(out, err, out \o <<"">> \o err)
    ELSE IF lang = "Py" THEN parse_pytest_output(out, err, out \o <<"">> \o err)
    ELSE IF lang \in {"Kt", "Java"} THEN parse_gradle_output(out, err, out \o <<"">> \o err)
    ELSE parse_c_output(out, err, out \o <<"">> \o err)

\* C23: a call of run_tests starts at most one process; when it has returned
\* with the tool launched, it started exactly one, the target's fixed
\* (program, args) pair, the process has exited, and the result is what the
\* parser of the target's family makes of its output
C23_OneProcessPerCall ==
    /\ Len(spawned) <= 1
    /\ (returned /\ tool_launched) =>
          /\ Len(spawned) = 1
          /\ <<spawned[1].cmd, spawned[1].args>> = FixedCommand(target)
          /\ tool_state = "exited"
          /\ run_result = FamilySummary(target, tool_stdout, tool_stderr)

C23_Witness ==
    /\ returned /\ tool_launched
    /\ target = "Kt"
    /\ Len(spawned) = 1
    /\ tool_state = "exited"
    /\ run_result.ok /\ run_result.total > 0

-----------------------------------------------------------------------------
(* The points of a completion *)

\* C24: the points are challenge_difficulty + tier bonus (0, 1, 2, 3 for Easy,
\* Medium, Hard, Extreme) + min(streak, 5), and the streak's share of them
\* never exceeds 5
C24_PointsFormula ==
    scored =>
        /\ score = score_args.challenge_difficulty + TierBonus(score_args.tier)
                      + Min({score_args.streak, 5})
        /\ score - score_args.challenge_difficulty - TierBonus(score_args.tier) <= 5

C24_Witness ==
    /\ scored
    /\ score_args.streak > 5
    /\ score_args.tier = "Extreme"
    /\ score = score_args.challenge_difficulty + 8

-----------------------------------------------------------------------------
(* Submits: one completion a day, and what a submit may write *)

\* the step is a run of codle submit (removing the directory changes
\* output_dir and the passing of midnight changes today)
SubmitStep ==
    /\ command' = "submit"
    /\ today' = today
    /\ output_dir' = output_dir

\* C25: a submit on the day of the last completion runs no tests and leaves
\* boss_score, challenges_completed, current_streak, longest_streak and
\* last_completed_date as they were, however often it is repeated
C25_OneCompletionPerDay ==
    [][(SubmitStep /\ user_config.last_completed_date = SomeDate(today)) =>
          /\ ~returned' /\ spawned' = <<>>
          /\ user_config'.boss_score = user_config.boss_score
          /\ user_config'.challenges_completed = user_config.challenges_completed
          /\ user_config'.current_streak = user_config.current_streak
          /\ user_config'.longest_streak = user_config.longest_streak
          /\ user_config'.last_completed_date = user_config.last_completed_date]_vars

\* a submit repeated after the day's completion: it ran no tests and ended well
C25_Witness ==
    /\ command = "submit" /\ exit_code = 0
    /\ ~returned /\ spawned = <<>>
    /\ user_config.last_completed_date = SomeDate(today)
    /\ user_config.challenges_completed = 1

\* the submit of this step ran the tests and its summary has total > 0 and
\* failed = 0
PassingRun ==
    /\ returned' /\ run_result'.ok
    /\ run_result'.total > 0 /\ run_result'.failed = 0

\* C26 as stated: submit changes the config only in a run whose summary has
\* total > 0 and failed = 0; boss_score never decreases; challenges_completed
\* grows by 1 in each such run and by 0 in every other
C26_AsStated ==
    [][/\ user_config'.boss_score >= user_config.boss_score
       /\ SubmitStep =>
             /\ user_config' # user_config => PassingRun
             /\ user_config'.challenges_completed - user_config.challenges_completed
                  = IF PassingRun THEN 1 ELSE 0]_vars

\* C26, amended: as stated, but challenges_completed grows by 1 in each such
\* run whose save_config succeeds (the submit exits with 0), and by 0 in every
\* other run
C26_WrittenOnlyOnPass ==
    [][/\ user_config'.boss_score >= user_config.boss_score
       /\ SubmitStep =>
             /\ user_config' # user_config => PassingRun
             /\ user_config'.challenges_completed - user_config.challenges_completed
                  = IF PassingRun /\ exit_code' = 0 THEN 1 ELSE 0]_vars

\* a submit whose tests all passed and whose save_config failed: nothing is
\* recorded
C26_Witness ==
    /\ command = "submit" /\ exit_code = 1
    /\ returned /\ run_result.ok /\ run_result.total > 0 /\ run_result.failed = 0
    /\ user_config.challenges_completed = 0

-----------------------------------------------------------------------------
(* Streaks *)

C28_LongestStreak ==
    /\ user_config.longest_streak >= user_config.current_streak
    /\ [][/\ user_config'.longest_streak >= user_config'.current_streak
          /\ user_config'.longest_streak >= user_config.longest_streak]_vars

\* the streak has been raised past the longest one so far, and a difficulty
\* command has run since
C28_Witness ==
    /\ command = "difficulty" /\ exit_code = 0
    /\ user_config.difficulty = "Hard"
    /\ user_config.current_streak = 3
    /\ user_config.longest_streak = 3

-----------------------------------------------------------------------------
(* The generated C and C++ harness and parse_c_output *)

\* the test cases the transcript reports as passed, and as failed
HarnessPassed == {i \in DOMAIN tool_stdout : ends_with(tool_stdout[i], ": PASS")}

HarnessFailed ==
    {i \in DOMAIN tool_stdout :
        starts_with(tool_stdout[i], "Test ") /\ contains(tool_stdout[i], ": FAIL")}

\* C29: of a harness run whose p test cases print PASS and f print FAIL,
\* followed by the line p/(p+f) tests passed, run_tests for C and C++ returns
\* passed = p, failed = f and total = p + f
C29_HarnessAgreesWithParser ==
    (returned /\ target \in {"C", "Cpp"} /\ tool_launched) =>
        /\ run_result.ok
        /\ run_result.passed = Cardinality(HarnessPassed)
        /\ run_result.failed = Cardinality(HarnessFailed)
        /\ run_result.total = Cardinality(HarnessPassed) + Cardinality(HarnessFailed)

C29_Witness ==
    /\ returned /\ target = "Cpp"
    /\ Cardinality(HarnessPassed) = 1
    /\ Cardinality(HarnessFailed) = 2
    /\ tool_stdout[Len(tool_stdout)] = "1/3 tests passed"
    /\ run_result.failed = 2


-----------------------------------------------------------------------------
(* The line the pytest counts come from *)

\* the counts the scan of parse_pytest_output reads on one line alone
PytestLineCounts(line) == pytest_scan(<<line>>, 0, 0)

\* the counts the scan has after every line of the transcript
PytestScanned == pytest_scan(combined_lines(tool_stdout, tool_stderr), 0, 0)

\* C30: when the scan of the pytest parser reads a count, the passed and the
\* failed count it returns are both the counts of one and the same line of the
\* transcript; a count of an earlier line is not joined to one of a later line
C30_CountsFromOneLine ==
    (/\ returned /\ target = "Py" /\ tool_launched
     /\ (PytestScanned.passed # 0 \/ PytestScanned.failed # 0)) =>
        \E i \in 1..Len(tool_stdout) :
            /\ run_result.passed = PytestLineCounts(tool_stdout[i]).passed
            /\ run_result.failed = PytestLineCounts(tool_stdout[i]).failed

=============================================================================
